---- MODULE Spec2Model ----
(***************************************************************************)
(* songrec-lib: the streaming accumulator (AudioProcessor), the            *)
(* recognition client's retry ladder, response parsing, the continuous     *)
(* recognition session (worker thread, capture stage, consumer), the       *)
(* signature wire codec, the configuration builders, recognition from a    *)
(* sample buffer, and the engine's peak spreading, peak recognition and    *)
(* band classification.                                                    *)
(*                                                                         *)
(* Sample buffers are carried by their length: none of the control flow    *)
(* modelled here reads a sample's value.  In the accumulator, the file     *)
(* path and the session the engine is represented by its counters and      *)
(* cursors; a signature is therefore the same for every window of a        *)
(* session, as it is when the input is the same in every window (digital   *)
(* silence, a steady tone).  The engine section near the end carries the   *)
(* spectra, around one bin position, with the spectrum of each hop as the  *)
(* input.                                                                  *)
(***************************************************************************)
EXTENDS Integers, Sequences, FiniteSets, TLC

VARIABLES
    processor,      \* AudioProcessor: signature_generator, sample_buffer, samples_processed, target_sample_rate
    ret,            \* what the last process_samples call returned
    fed,            \* samples given to process_samples since the processor was last fresh
    last_fed,       \* the value fed had in the last call, after its batch was added and before any reset
    windows,        \* number of calls that returned Some(signature) so far
    returned        \* the signatures the caller got from process_samples, in order

VARIABLES
    sub,            \* the call of recognize_song_from_signature_with_config in progress, if any
    fpc,            \* recognize_from_file: "idle", "start", "submitting", "done"
    file,           \* recognize_from_file: the file it was called on
    fresult         \* recognize_from_file: what it returned

VARIABLES
    capture,        \* the capture stage: "starting", "ok", "failed"
    sample_chan,    \* the batches sent by the capture callback and not yet taken by the worker
    wpc,            \* the worker thread: "start", "recv", "submit", "exited"
    win,            \* windows the worker has completed (signatures extracted)
    submitting,     \* the window whose submission was started last
    outstanding,    \* requests sent and not yet answered
    result_chan,    \* items sent on result_tx and not yet received
    handed,         \* every item the worker has passed to result_tx.send, in order
    received,       \* the items next() has returned to the consumer, in order
    handle,         \* the consumer's RecognitionStream: "held", "dropped"
    senders,        \* live clones of result_tx
    stream_end,     \* next() has returned None
    submitted       \* the signatures for which a first request was sent, in order

VARIABLES
    csig,           \* a signature
    wire,           \* what encode made of it
    decoded         \* what decode made of that

VARIABLES
    config,         \* a Config under construction
    sens_arg        \* the argument of the last with_sensitivity call

VARIABLES
    peak_bin,       \* do_peak_recognition: corrected_peak_frequency_bin of a detected peak
    peak_band       \* do_peak_recognition: the band it was pushed to, if any

VARIABLES
    timeouts        \* the timeout, in seconds, of each request the submission in progress has sent

VARIABLES
    built,          \* the last Config builder call: its method and its argument
    prev_config     \* the Config that call was made on

VARIABLES
    rfs             \* the recognize_from_samples call in progress

VARIABLES
    spectrum,       \* do_peak_spreading: the newest spectrum, fft_outputs[fft_outputs_index - 1]
    spread          \* do_peak_spreading: spread_fft_outputs[spread_fft_outputs_index] after the first loop

VARIABLES
    engine,         \* a SignatureGenerator with the contents of its spectra around one bin
    audio           \* the spectra its hops have: which hops are loud, and the loud spectrum

procVars == <<processor, ret, fed, last_fed, windows, returned>>
clientVars == <<sub>>
fileVars == <<fpc, file, fresult>>
sessionVars == <<capture, sample_chan, wpc, win, submitting, outstanding, result_chan,
                 handed, received, handle, senders, stream_end, submitted>>
codecVars == <<csig, wire, decoded>>
configVars == <<config, sens_arg>>
peakVars == <<peak_bin, peak_band>>
netVars == <<timeouts>>
builderVars == <<built, prev_config>>
samplesVars == <<rfs>>
spreadVars == <<spectrum, spread>>
engineVars == <<engine, audio>>
laterVars == <<netVars, builderVars, samplesVars, spreadVars, engineVars>>

vars == <<processor, ret, fed, last_fed, windows, returned, sub, fpc, file, fresult,
          capture, sample_chan, wpc, win, submitting, outstanding, result_chan,
          handed, received, handle, senders, stream_end, submitted, csig, wire, decoded,
          config, sens_arg, peak_bin, peak_band, timeouts, built, prev_config, rfs,
          spectrum, spread, engine, audio>>

(***************************************************************************)
(* Program constants                                                       *)
(***************************************************************************)
HopSize == 128
RingSize == 2048
SpectraSlots == 256
PeakLag == 46
TargetSampleRate == 16000
WindowSeconds == 12

(***************************************************************************)
(* Bounds of the model                                                     *)
(***************************************************************************)
MaxWindows == 2
MaxBatch == 300

\* batch sizes offered to process_samples: empty, below / at / above one hop,
\* several hops with a remainder, and the capture stage's default batch
BatchSizes == {0, 1, HopSize - 1, HopSize, HopSize + 1, MaxBatch}

None == [kind |-> "None"]
Some(v) == [kind |-> "Some", value |-> v]

(***************************************************************************)
(* Config (config.rs)                                                      *)
(***************************************************************************)
\* an f32: NaN, or a number carried in hundredths (0.5 is F32(50))
F32(c) == [nan |-> FALSE, c |-> c]
NaN == [nan |-> TRUE, c |-> 0]

\* the comparisons of f32: every comparison with NaN is false
f32_lt(a, b) == ~a.nan /\ ~b.nan /\ a.c < b.c
f32_gt(a, b) == ~a.nan /\ ~b.nan /\ a.c > b.c
f32_eq(a, b) == ~a.nan /\ ~b.nan /\ a.c = b.c

\* f32::clamp: if self < min { min } else if self > max { max } else { self }
f32_clamp_lower_only(x, min, max) == IF f32_lt(x, min) THEN min ELSE x

f32_clamp(x, min, max) ==
    IF f32_lt(x, min) THEN min ELSE IF f32_gt(x, max) THEN max ELSE x

\* the session's Config::buffer_size: the capture callback sends a batch each
\* time its buffer holds this many samples
buffer_size == 4096

\* Config::default(); the durations and the interval in whole seconds
Config_default ==
    [sensitivity                  |-> F32(50),
     network_timeout              |-> 20,
     min_audio_duration           |-> 3,
     max_audio_duration           |-> 12,
     sample_rate                  |-> 16000,
     buffer_size                  |-> buffer_size,
     continuous_recognition       |-> FALSE,
     recognition_interval         |-> 5,
     quiet_mode                   |-> TRUE,
     deduplicate_requests         |-> TRUE,
     deduplication_cache_duration |-> 300]

with_sensitivity(c, sensitivity) ==
    [c EXCEPT !.sensitivity = f32_clamp(sensitivity, F32(0), F32(100))]

with_min_audio_duration(c, duration) == [c EXCEPT !.min_audio_duration = duration]
with_max_audio_duration(c, duration) == [c EXCEPT !.max_audio_duration = duration]
with_sample_rate(c, sample_rate) == [c EXCEPT !.sample_rate = sample_rate]
with_network_timeout(c, timeout) == [c EXCEPT !.network_timeout = timeout]

with_buffer_sizeOff(c, size) == [c EXCEPT !.sample_rate = size]

with_buffer_size(c, size) == [c EXCEPT !.buffer_size = size]
with_continuous_recognition(c, enabled) == [c EXCEPT !.continuous_recognition = enabled]
with_recognition_interval(c, interval) == [c EXCEPT !.recognition_interval = interval]
with_quiet_mode(c, quiet) == [c EXCEPT !.quiet_mode = quiet]
with_deduplication(c, enabled) == [c EXCEPT !.deduplicate_requests = enabled]
with_deduplication_cache_duration(c, duration) ==
    [c EXCEPT !.deduplication_cache_duration = duration]

\* no Config is being built
ConfigIdle ==
    /\ config = Config_default
    /\ sens_arg = None

\* no peak is being classified
PeakIdle ==
    /\ peak_bin = 0
    /\ peak_band = [kind |-> "NoCall"]

\* no request has been sent
NetIdle == timeouts = << >>

\* no builder has been called
BuilderIdle ==
    /\ built = None
    /\ prev_config = Config_default

\* recognize_from_samples has not been called
SamplesIdle == rfs = [pc |-> "idle"]

\* no spectrum is being spread
SpreadIdle ==
    /\ spectrum = << >>
    /\ spread = << >>

\* no engine with spectra exists
EngineIdle ==
    /\ engine = None
    /\ audio = None

LaterIdle ==
    /\ NetIdle
    /\ BuilderIdle
    /\ SamplesIdle
    /\ SpreadIdle
    /\ EngineIdle

(***************************************************************************)
(* SignatureGenerator (fingerprinting/algorithm.rs)                        *)
(***************************************************************************)
SignatureGenerator_new ==
    [ring_buffer_of_samples_index |-> 0,
     fft_outputs_index            |-> 0,
     spread_fft_outputs_index     |-> 0,
     num_spread_ffts_done         |-> 0,
     signature |-> [sample_rate_hz |-> 16000, number_samples |-> 0]]

\* do_fft on a chunk of len samples: sample count, do_fft_internal's cursors,
\* do_peak_spreading's cursor, the hop counter
do_fft(g, len, sample_rate) ==
    [ring_buffer_of_samples_index |-> (g.ring_buffer_of_samples_index + HopSize) % RingSize,
     fft_outputs_index            |-> (g.fft_outputs_index + 1) % SpectraSlots,
     spread_fft_outputs_index     |-> (g.spread_fft_outputs_index + 1) % SpectraSlots,
     num_spread_ffts_done         |-> g.num_spread_ffts_done + 1,
     signature |-> [sample_rate_hz |-> sample_rate,
                    number_samples |-> g.signature.number_samples + len]]

get_signature(g) == g.signature

(***************************************************************************)
(* AudioProcessor (audio/processor.rs)                                     *)
(***************************************************************************)
AudioProcessor_with_config(c) ==
    [signature_generator |-> SignatureGenerator_new,
     sample_buffer       |-> 0,
     samples_processed   |-> 0,
     target_sample_rate  |-> TargetSampleRate,
     config              |-> c]

AudioProcessor_new == AudioProcessor_with_config(Config_default)

\* (12.0 * self.target_sample_rate as f32) as usize
min_samples(p) == WindowSeconds * p.target_sample_rate

resetOff(p) ==
    [p EXCEPT !.sample_buffer = 0,
              !.samples_processed = 0]

resetKeepsLeftover(p) ==
    [p EXCEPT !.signature_generator = SignatureGenerator_new,
              !.samples_processed = 0]

\* reset: a new engine, the buffer cleared, the counter zeroed; config stays
reset(p) ==
    [p EXCEPT !.signature_generator = SignatureGenerator_new,
              !.sample_buffer = 0,
              !.samples_processed = 0]

WindowCompleteOff(p) == p.samples_processed > min_samples(p)

\* if self.samples_processed >= min_samples
WindowComplete(p) == p.samples_processed >= min_samples(p)

\* the while loop of process_samples, one iteration per 128-sample chunk
RECURSIVE ProcessLoop(_)
ProcessLoop(p) ==
    IF p.sample_buffer < HopSize
    THEN [proc |-> p, ret |-> None]
    ELSE LET q == [p EXCEPT
                     !.sample_buffer = @ - HopSize,
                     !.signature_generator = do_fft(@, HopSize, p.target_sample_rate),
                     !.samples_processed = @ + HopSize]
         IN  IF WindowComplete(q)
             THEN [proc |-> reset(q), ret |-> Some(get_signature(q.signature_generator))]
             ELSE ProcessLoop(q)

process_samples(p, n) ==
    ProcessLoop([p EXCEPT !.sample_buffer = @ + n])

get_progressOff(p) == <<p.sample_buffer, min_samples(p)>>

\* min(1.0) of samples_processed / min_samples, as the pair numerator / denominator
get_progress(p) ==
    IF p.samples_processed >= min_samples(p)
    THEN <<1, 1>>
    ELSE <<p.samples_processed, min_samples(p)>>

\* a processor nobody has called yet
ProcFresh ==
    /\ processor = AudioProcessor_new
    /\ ret = [kind |-> "NoCall"]
    /\ fed = 0
    /\ last_fed = 0
    /\ windows = 0
    /\ returned = <<>>

\* no continuous session has been started
SessionIdle ==
    /\ capture = "none"
    /\ sample_chan = <<>>
    /\ wpc = "none"
    /\ win = 0
    /\ submitting = 0
    /\ outstanding = 0
    /\ result_chan = <<>>
    /\ handed = <<>>
    /\ received = <<>>
    /\ handle = "none"
    /\ senders = 0
    /\ stream_end = FALSE
    /\ submitted = <<>>

(***************************************************************************)
(* Results and errors (lib.rs)                                             *)
(***************************************************************************)
Ok(v) == [kind |-> "Ok", value |-> v]
Err(e) == [kind |-> "Err", error |-> e]

NetworkError(msg) == [type |-> "NetworkError", msg |-> msg]
FingerprintingError(msg) == [type |-> "FingerprintingError", msg |-> msg]
AudioError(msg) == [type |-> "AudioError", msg |-> msg]

(***************************************************************************)
(* JSON values of the service's response, as far as parsing looks at them  *)
(***************************************************************************)
JAbsent == [t |-> "absent"]
\* present, of another JSON type than the one asked for (null, number, ...)
JOther == [t |-> "other"]
JString(s) == [t |-> "string", s |-> s]
JArray(n) == [t |-> "array", len |-> n]

StringFields == {JAbsent, JOther, JString(""), JString("text")}
OptionalFields == {JAbsent, JString("text")}

JTrack(title, subtitle, key, album, released, genre) ==
    [t |-> "object", title |-> title, subtitle |-> subtitle, key |-> key,
     album |-> album, released |-> released, genre |-> genre]

Tracks ==
    {JAbsent, JOther}
    \cup {JTrack(a, b, c, JAbsent, JAbsent, JAbsent) :
            a \in StringFields, b \in StringFields, c \in StringFields}
    \cup {JTrack(JString("text"), JString("text"), JString("text"), d, e, f) :
            d \in OptionalFields, e \in OptionalFields, f \in OptionalFields}

MatchesFields == {JAbsent, JOther, JArray(0), JArray(1)}

Responses == {[matches |-> m, track |-> k] : m \in MatchesFields, k \in Tracks}

\* Value::get(key) on a value that is no object gives None
member(v, key) == IF v.t = "object" THEN v[key] ELSE JAbsent

\* .and_then(|v| v.as_str())
as_str(v) == IF v.t = "string" THEN Some(v.s) ELSE None

unwrap_or(o, d) == IF o.kind = "Some" THEN o.value ELSE d

(***************************************************************************)
(* SongRec::parse_recognition_response_static (songrec.rs)                 *)
(***************************************************************************)
\* response.get("track"): Some for a member of any JSON type
TrackFound(response) == response.track.t # "absent"

parse_recognition_response_static(response) ==
    IF response.matches.t # "array"
    THEN Err(NetworkError("Invalid response format: no matches array"))
    ELSE IF response.matches.len = 0
    THEN Err(NetworkError("No track found in response"))
    ELSE IF ~TrackFound(response)
    THEN Err(NetworkError("No track found in response"))
    ELSE LET track == response.track
         IN  Ok([song_name    |-> unwrap_or(as_str(member(track, "title")), "Unknown"),
                 artist_name  |-> unwrap_or(as_str(member(track, "subtitle")), "Unknown"),
                 album_name   |-> as_str(member(track, "album")),
                 track_key    |-> unwrap_or(as_str(member(track, "key")), ""),
                 release_year |-> as_str(member(track, "released")),
                 genre        |-> as_str(member(track, "genre")),
                 raw_response |-> response])

(***************************************************************************)
(* Signature model and wire codec (fingerprinting/signature_format.rs,     *)
(* which is not among the sources: modelled from the specification).  The  *)
(* wire form is carried as its sequence of fields, not as bytes.           *)
(***************************************************************************)
MaxPeaksPerBand == 2
MaxPassNumber == 1

\* the four canonical bands, in their canonical order
FrequencyBands == <<"_250_520", "_520_1450", "_1450_3500", "_3500_5500">>

U16Max == 65535

WireMagic == 1

FrequencyPeaks ==
    {[fft_pass_number |-> p, peak_magnitude |-> m, corrected_peak_frequency_bin |-> b] :
        p \in 0..MaxPassNumber, m \in {U16Max}, b \in {2000}}

\* the peaks of one band: absent (no peak was stored), or 1..MaxPeaksPerBand
\* peaks in hop order
PeakLists ==
    {<<>>} \cup
    UNION {{l \in [1..n -> FrequencyPeaks] :
                \A i \in 1..(n - 1) : l[i].fft_pass_number <= l[i + 1].fft_pass_number} :
            n \in 1..MaxPeaksPerBand}

NoPeaks == [b \in 1..Len(FrequencyBands) |-> <<>>]

\* a signature as the engine builds it: a band is a key of the map only once a
\* peak has been pushed to it (here: the peak list of an absent key is empty)
Signatures ==
    {[sample_rate_hz |-> 16000, number_samples |-> n, frequency_band_to_sound_peaks |-> m] :
        n \in {0, 192000},
        m \in [1..Len(FrequencyBands) -> PeakLists]}

PeaksOf(sig, band) == sig.frequency_band_to_sound_peaks[band]

RECURSIVE EncodePeaks(_)
EncodePeaks(peaks) ==
    IF peaks = <<>> THEN <<>>
    ELSE <<Head(peaks).fft_pass_number, Head(peaks).peak_magnitude,
           Head(peaks).corrected_peak_frequency_bin>> \o EncodePeaks(Tail(peaks))

RECURSIVE EncodePeaksReversed(_)
EncodePeaksReversed(peaks) ==
    IF peaks = <<>> THEN <<>>
    ELSE EncodePeaksReversed(Tail(peaks)) \o
         <<Head(peaks).fft_pass_number, Head(peaks).peak_magnitude,
           Head(peaks).corrected_peak_frequency_bin>>

RECURSIVE EncodeBandsOff(_, _)
EncodeBandsOff(sig, b) ==
    IF b > Len(FrequencyBands) THEN <<>>
    ELSE LET peaks == PeaksOf(sig, b)
         IN  (IF peaks = <<>> THEN <<>> ELSE <<b, Len(peaks)>> \o EncodePeaksReversed(peaks))
             \o EncodeBandsOff(sig, b + 1)

\* the records of bands b..4: band number, peak count, the peaks in order;
\* a band without peaks has no record
RECURSIVE EncodeBands(_, _)
EncodeBands(sig, b) ==
    IF b > Len(FrequencyBands) THEN <<>>
    ELSE LET peaks == PeaksOf(sig, b)
         IN  (IF peaks = <<>> THEN <<>> ELSE <<b, Len(peaks)>> \o EncodePeaks(peaks))
             \o EncodeBands(sig, b + 1)

PeakRepresentable(p) ==
    /\ p.fft_pass_number >= 0
    /\ p.peak_magnitude \in 0..U16Max
    /\ p.corrected_peak_frequency_bin \in 0..U16Max

\* encode: header (magic), sample rate, length, then the band records
encode(sig) ==
    IF \E b \in DOMAIN sig.frequency_band_to_sound_peaks :
          \E i \in 1..Len(sig.frequency_band_to_sound_peaks[b]) :
              ~PeakRepresentable(sig.frequency_band_to_sound_peaks[b][i])
    THEN Err("structurally invalid")
    ELSE Ok(<<WireMagic, sig.sample_rate_hz, sig.number_samples>> \o EncodeBands(sig, 1))

RECURSIVE DecodePeaks(_, _)
DecodePeaks(w, n) ==
    IF n = 0 THEN <<>>
    ELSE <<[fft_pass_number |-> w[1], peak_magnitude |-> w[2],
            corrected_peak_frequency_bin |-> w[3]]>>
         \o DecodePeaks(SubSeq(w, 4, Len(w)), n - 1)

\* the band records of w, added to the map acc; Err on a cut or malformed record
RECURSIVE DecodeBands(_, _)
DecodeBands(w, acc) ==
    IF w = <<>> THEN Ok(acc)
    ELSE IF Len(w) < 2 THEN Err("truncated")
    ELSE IF w[1] \notin 1..Len(FrequencyBands) \/ w[2] < 1 THEN Err("malformed")
    ELSE IF Len(w) < 2 + 3 * w[2] THEN Err("truncated")
    ELSE DecodeBands(SubSeq(w, 3 + 3 * w[2], Len(w)),
                     [acc EXCEPT ![w[1]] = DecodePeaks(SubSeq(w, 3, 2 + 3 * w[2]), w[2])])

\* decode: rejects a cut header and an unknown version marker
decode(w) ==
    IF Len(w) < 3 THEN Err("truncated")
    ELSE IF w[1] # WireMagic THEN Err("unknown version")
    ELSE LET bands == DecodeBands(SubSeq(w, 4, Len(w)), NoPeaks)
         IN  IF bands.kind = "Err" THEN bands
             ELSE Ok([sample_rate_hz |-> w[2], number_samples |-> w[3],
                      frequency_band_to_sound_peaks |-> bands.value])

CodecIdle ==
    /\ csig = [sample_rate_hz |-> 16000, number_samples |-> 0,
               frequency_band_to_sound_peaks |-> NoPeaks]
    /\ wire = None
    /\ decoded = None

(***************************************************************************)
(* The recognition client (fingerprinting/communication.rs)                *)
(***************************************************************************)
MaxAttempts == 3

\* a response body: text that serde_json parses into a value, or not
Garbage == [parseable |-> FALSE]
Json(v) == [parseable |-> TRUE, json |-> v]

\* what the transport gives back for one request
Replies ==
    {[transport |-> "error", status |-> 0, body |-> Garbage]}
    \cup {[transport |-> "ok", status |-> s, body |-> Garbage] : s \in {200, 500}}
    \cup {[transport |-> "ok", status |-> 200, body |-> Json(r)] : r \in Responses}
    \cup {[transport |-> "ok", status |-> 404, body |-> Json(r)] :
            r \in {[matches |-> JArray(0), track |-> JAbsent]}}

try_shazam_request_with_configOff(reply) ==
    IF reply.transport = "error"
    THEN Err("transport")
    ELSE IF ~(reply.status >= 200 /\ reply.status <= 299)
    THEN Err("HTTP error")
    ELSE IF ~reply.body.parseable
    THEN Err("Failed to parse JSON response")
    ELSE IF reply.body.json.matches.t = "array" /\ reply.body.json.matches.len = 0
    THEN Err("No matches")
    ELSE Ok(reply.body.json)

\* try_shazam_request_with_config: send()?, status.is_success(), serde_json::from_str
try_shazam_request_with_config(reply) ==
    IF reply.transport = "error"
    THEN Err("transport")
    ELSE IF ~(reply.status >= 200 /\ reply.status <= 299)
    THEN Err("HTTP error")
    ELSE IF ~reply.body.parseable
    THEN Err("Failed to parse JSON response")
    ELSE Ok(reply.body.json)

\* state: "idle", "attempt" (the request of attempt number attempt is outstanding),
\* "backoff" (asleep after a failed attempt), "returned" (with result);
\* log: the requests sent and the sleeps taken, in order; reply: the latest reply
SubIdle == [state |-> "idle", attempt |-> 0, log |-> <<>>, reply |-> None, result |-> None]

AttemptEvent(n) == [ev |-> "attempt", n |-> n]
WaitEvent(n) == [ev |-> "wait", n |-> n]

\* lines 19-44: the timestamp and signature.encode_to_uri()? come before the loop;
\* an Err there is returned without any request
SubmitBegin(uri_ok) ==
    IF uri_ok
    THEN [SubIdle EXCEPT !.state = "attempt", !.attempt = 1, !.log = <<AttemptEvent(1)>>]
    ELSE [SubIdle EXCEPT !.state = "returned", !.result = Err("encode")]

WaitsAfterOff(attempt) == attempt <= MaxAttempts

\* if attempt < 3 { thread::sleep(2 s) }
WaitsAfter(attempt) == attempt < MaxAttempts

OnAttemptOkOff(s, response) ==
    IF s.attempt < MaxAttempts
    THEN [s EXCEPT !.state = "attempt", !.attempt = @ + 1,
                   !.log = Append(@, AttemptEvent(s.attempt + 1))]
    ELSE [s EXCEPT !.state = "returned", !.result = Ok(response)]

\* Ok(response) => return Ok(response)
OnAttemptOk(s, response) ==
    [s EXCEPT !.state = "returned", !.result = Ok(response)]

\* the request of attempt s.attempt comes back with reply
AttemptEnd(s0, reply) ==
    LET s == [s0 EXCEPT !.reply = Some(reply)]
        r == try_shazam_request_with_config(reply)
    IN  IF r.kind = "Ok"
        THEN OnAttemptOk(s, r.value)
        ELSE IF WaitsAfter(s.attempt)
        THEN [s EXCEPT !.state = "backoff", !.log = Append(@, WaitEvent(s.attempt))]
        ELSE IF s.attempt < MaxAttempts
        THEN [s EXCEPT !.state = "attempt", !.attempt = @ + 1,
                       !.log = Append(@, AttemptEvent(s.attempt + 1))]
        ELSE [s EXCEPT !.state = "returned", !.result = Err("All API requests failed")]

\* the sleep is over: the next iteration of for attempt in 1..=3 sends its request
BackoffEnd(s) ==
    IF s.attempt < MaxAttempts
    THEN [s EXCEPT !.state = "attempt", !.attempt = @ + 1,
                   !.log = Append(@, AttemptEvent(s.attempt + 1))]
    ELSE [s EXCEPT !.state = "returned", !.result = Err("All API requests failed")]

ClientIdle == sub = SubIdle

\* the timeout try_shazam_request_with_config puts on the request of one
\* attempt: .timeout(Duration::from_secs(30)), whatever the config holds
request_timeout(c, attempt) == 30

(***************************************************************************)
(* SignatureGenerator::make_signature_from_file (algorithm.rs)             *)
(***************************************************************************)
MinFileSamples == 48000
MaxFileSamples == 192000

\* a file: does it exist, does rodio decode it, how many mono 16 kHz samples
Files ==
    {[exists |-> FALSE, decodable |-> FALSE, len |-> 0],
     [exists |-> TRUE, decodable |-> FALSE, len |-> 0]}
    \cup {[exists |-> TRUE, decodable |-> TRUE, len |-> n] :
            n \in {0, 1, MinFileSamples - 1, MinFileSamples, 100000,
                   MaxFileSamples, MaxFileSamples + 1, 320000}}

Min(a, b) == IF a < b THEN a ELSE b

file_sliceOff(len) == [from |-> 0, to |-> Min(len, MaxFileSamples)]

\* lines 62-78: the range [from, to) of raw_pcm_samples that is fingerprinted:
\* the 12 seconds around the middle of a longer buffer, then [..slice_len] of that
file_slice(len) ==
    LET slice_len == Min(len, MaxFileSamples)
        middle == len \div 2
        from == IF len > MaxFileSamples THEN middle - 6 * TargetSampleRate ELSE 0
    IN  [from |-> from, to |-> from + slice_len]

\* make_signature_from_buffer, as far as the signature is carried here
make_signature_from_buffer(len) == [sample_rate_hz |-> 16000, number_samples |-> len]

make_signature_from_file(f) ==
    IF ~f.exists THEN Err("File not found")
    ELSE IF ~f.decodable THEN Err("Failed to decode audio file")
    ELSE IF f.len = 0 THEN Err("No audio samples could be extracted")
    ELSE LET slice_len == Min(f.len, MaxFileSamples)
         IN  IF slice_len < MinFileSamples
             THEN Err("too short for fingerprinting")
             ELSE Ok(make_signature_from_buffer(file_slice(f.len).to - file_slice(f.len).from))

(***************************************************************************)
(* SongRec::recognize_from_file (songrec.rs)                               *)
(***************************************************************************)
FileIdle ==
    /\ fpc = "idle"
    /\ file = [exists |-> FALSE, decodable |-> FALSE, len |-> 0]
    /\ fresult = None

\* what recognize_from_file makes of a finished submission
FileOutcome(s) ==
    IF s.result.kind = "Ok"
    THEN parse_recognition_response_static(s.result.value)
    ELSE Err(NetworkError(s.result.error))

FileInit ==
    /\ ProcFresh
    /\ sub = SubIdle
    /\ fpc = "start"
    /\ file \in Files
    /\ fresult = None
    /\ SessionIdle
    /\ CodecIdle
    /\ ConfigIdle
    /\ PeakIdle
    /\ LaterIdle

FileFingerprintOff(uri_ok) ==
    /\ fpc = "start"
    /\ LET sig == make_signature_from_file(file)
       IN  IF sig.kind = "Err"
           THEN /\ fresult' = Err(NetworkError(sig.error))
                /\ fpc' = "done"
                /\ sub' = sub
           ELSE LET s == SubmitBegin(uri_ok)
                IN  /\ sub' = s
                    /\ fpc' = IF s.state = "returned" THEN "done" ELSE "submitting"
                    /\ fresult' = IF s.state = "returned" THEN FileOutcome(s) ELSE fresult
    /\ UNCHANGED <<laterVars, procVars, file, sessionVars, codecVars, configVars, peakVars>>

\* make_signature_from_file, then the client is entered (or the error returned)
FileFingerprint(uri_ok) ==
    /\ fpc = "start"
    /\ LET sig == make_signature_from_file(file)
       IN  IF sig.kind = "Err"
           THEN /\ fresult' = Err(FingerprintingError(sig.error))
                /\ fpc' = "done"
                /\ sub' = sub
           ELSE LET s == SubmitBegin(uri_ok)
                IN  /\ sub' = s
                    /\ fpc' = IF s.state = "returned" THEN "done" ELSE "submitting"
                    /\ fresult' = IF s.state = "returned" THEN FileOutcome(s) ELSE fresult
    /\ UNCHANGED <<laterVars, procVars, file, sessionVars, codecVars, configVars, peakVars>>

FileAttemptEnd(reply) ==
    /\ fpc = "submitting"
    /\ sub.state = "attempt"
    /\ LET s == AttemptEnd(sub, reply)
       IN  /\ sub' = s
           /\ fpc' = IF s.state = "returned" THEN "done" ELSE fpc
           /\ fresult' = IF s.state = "returned" THEN FileOutcome(s) ELSE fresult
    /\ UNCHANGED <<laterVars, procVars, file, sessionVars, codecVars, configVars, peakVars>>

FileBackoffEnd ==
    /\ fpc = "submitting"
    /\ sub.state = "backoff"
    /\ LET s == BackoffEnd(sub)
       IN  /\ sub' = s
           /\ fpc' = IF s.state = "returned" THEN "done" ELSE fpc
           /\ fresult' = IF s.state = "returned" THEN FileOutcome(s) ELSE fresult
    /\ UNCHANGED <<laterVars, procVars, file, sessionVars, codecVars, configVars, peakVars>>

FileNext ==
    \/ \E uri_ok \in BOOLEAN : FileFingerprint(uri_ok)
    \/ \E reply \in Replies : FileAttemptEnd(reply)
    \/ FileBackoffEnd

FileSpec == FileInit /\ [][FileNext]_vars

\* the requests and sleeps of a call whose k-th attempt was its last:
\* attempt 1, wait, attempt 2, wait, ..., attempt k
LadderLog(k) ==
    [i \in 1..(2 * k - 1) |->
        IF i % 2 = 1 THEN AttemptEvent((i + 1) \div 2) ELSE WaitEvent(i \div 2)]

ReplyFailed(reply) ==
    \/ reply.transport = "error"
    \/ reply.status < 200
    \/ reply.status > 299
    \/ ~reply.body.parseable

\* the call has returned after a failed third attempt
AllAttemptsFailed ==
    /\ sub.state = "returned"
    /\ sub.attempt = 3
    /\ sub.reply.kind = "Some"
    /\ ReplyFailed(sub.reply.value)

\* C2: when all three attempts have failed the client has made exactly the
\* requests 1, 2, 3 with one sleep after the first and one after the second and
\* none after the third, it returns an error, and recognize_from_file reports
\* that error as a Network error
C2_TerminalErrorAfterThreeAttempts ==
    AllAttemptsFailed =>
        /\ sub.log = LadderLog(3)
        /\ Len(SelectSeq(sub.log, LAMBDA e : e.ev = "attempt")) = 3
        /\ Len(SelectSeq(sub.log, LAMBDA e : e.ev = "wait")) = 2
        /\ sub.result = Err("All API requests failed")
        /\ fpc = "done"
        /\ fresult = Err(NetworkError("All API requests failed"))

C2_Witness ==
    AllAttemptsFailed /\ fpc = "done" /\ fresult.kind = "Err"

\* the call has returned the response of a successful attempt
ReturnedOk == sub.state = "returned" /\ sub.result.kind = "Ok"

\* C3: when attempt k is the first to succeed, the client returns that attempt's
\* parsed response having made exactly the requests 1..k and k-1 sleeps, and
\* nothing follows the success: a returned call sends and sleeps no more
C3_ReturnsFirstSuccess ==
    /\ [](ReturnedOk =>
            /\ sub.attempt \in 1..3
            /\ sub.log = LadderLog(sub.attempt)
            /\ ~ReplyFailed(sub.reply.value)
            /\ sub.result = Ok(sub.reply.value.body.json))
    /\ [][sub.state = "returned" => sub' = sub]_vars

C3_Witness ==
    ReturnedOk /\ sub.attempt = 3 /\ Len(sub.log) = 5 /\ fpc = "done"

\* C4: parsing gives a Network error for every response without a matches array,
\* with an empty one, or with matches but no top-level track object
C4_ParseRejectsWithoutMatchesOrTrack ==
    (fpc = "done" /\ ReturnedOk) =>
        LET response == sub.result.value
        IN  (\/ response.matches.t # "array"
             \/ response.matches.len = 0
             \/ response.track.t # "object")
            => (fresult.kind = "Err" /\ fresult.error.type = "NetworkError")

\* what does hold: the error is returned whenever the track member is absent
C4_ParseRejectsAbsentTrack ==
    (fpc = "done" /\ ReturnedOk) =>
        LET response == sub.result.value
        IN  (\/ response.matches.t # "array"
             \/ response.matches.len = 0
             \/ response.track.t = "absent")
            => (fresult.kind = "Err" /\ fresult.error.type = "NetworkError")

\* the latest reply is a 2xx response whose body parses and holds no match
ZeroMatchReply ==
    /\ sub.reply # None
    /\ ~ReplyFailed(sub.reply.value)
    /\ sub.reply.value.body.json.matches.t = "array"
    /\ sub.reply.value.body.json.matches.len = 0

\* C23: an attempt counts as failed (a retry or the terminal error follows)
\* exactly when the transport failed, the status is not 2xx or the body does
\* not parse; any other reply ends the call with that reply's body, whatever
\* it holds.  A zero-match answer to the first request is therefore the only
\* request made, no sleep is taken, and recognize_from_file returns the
\* 'No track found' Network error of response parsing
C23_FailedExactlyOnErrors ==
    /\ sub.reply # None =>
            IF ReplyFailed(sub.reply.value)
            THEN /\ ~ReturnedOk
                 /\ sub.state = "returned" => sub.result = Err("All API requests failed")
            ELSE /\ ReturnedOk
                 /\ sub.result = Ok(sub.reply.value.body.json)
                 /\ sub.log[Len(sub.log)] = AttemptEvent(sub.attempt)
    /\ (ZeroMatchReply /\ sub.attempt = 1) =>
            /\ sub.log = <<AttemptEvent(1)>>
            /\ fpc = "done"
            /\ fresult = Err(NetworkError("No track found in response"))

C23_Witness ==
    /\ ZeroMatchReply
    /\ sub.attempt = 1
    /\ sub.reply.value.status = 200
    /\ fpc = "done"
    /\ fresult.kind = "Err"

\* the file decoded to samples
Decoded == file.exists /\ file.decodable

\* C17 as claimed: every decoded length below 48000 fails as too short
C17_ShortFileIsTooShort ==
    (fpc # "start" /\ Decoded /\ file.len < MinFileSamples) =>
        make_signature_from_file(file) = Err("too short for fingerprinting")

\* C17 as amended: a file that decodes to L samples fails as too short for
\* 0 < L < 48000 and as holding no samples for L = 0; all L samples are
\* fingerprinted for 48000 <= L <= 192000; for L > 192000 the 192000 samples at
\* [L/2 - 96000, L/2 + 96000), a range inside the buffer; a failure is returned
\* before any request and a signature goes on to the client
C17_FileLengthRule ==
    (fpc # "start" /\ Decoded) =>
        LET L == file.len
            r == make_signature_from_file(file)
            sl == file_slice(L)
        IN  /\ (0 < L /\ L < 48000) => r = Err("too short for fingerprinting")
            /\ L = 0 => r = Err("No audio samples could be extracted")
            /\ (48000 <= L /\ L <= 192000) =>
                  /\ r.kind = "Ok"
                  /\ r.value.number_samples = L
                  /\ sl = [from |-> 0, to |-> L]
            /\ L > 192000 =>
                  /\ r.kind = "Ok"
                  /\ r.value.number_samples = 192000
                  /\ sl = [from |-> L \div 2 - 96000, to |-> L \div 2 + 96000]
                  /\ 0 <= sl.from /\ sl.to <= L
            /\ r.kind = "Err" =>
                  /\ fpc = "done"
                  /\ fresult = Err(FingerprintingError(r.error))
                  /\ sub = SubIdle
            /\ r.kind = "Ok" => sub # SubIdle

C17_Witness ==
    /\ fpc = "done"
    /\ file.len = MaxFileSamples + 1
    /\ fresult.kind = "Ok"

\* C18: for a path that does not exist and for a file that cannot be decoded
\* the call returns a Fingerprinting error and no request was sent
C18_BadFileFailsBeforeClient ==
    (fpc # "start" /\ ~Decoded) =>
        /\ fpc = "done"
        /\ fresult.kind = "Err"
        /\ fresult.error.type = "FingerprintingError"
        /\ fresult.error.msg =
              (IF file.exists THEN "Failed to decode audio file" ELSE "File not found")
        /\ sub = SubIdle
        /\ sub.log = <<>>

C18_Witness ==
    /\ fpc = "done"
    /\ ~file.exists
    /\ fresult = Err(FingerprintingError("File not found"))

\* C19: a result returned as Ok has a non-empty song_name, artist_name and
\* track_key
C19_OkResultHasRequiredFields ==
    fresult.kind = "Ok" =>
        /\ fresult.value.song_name # ""
        /\ fresult.value.artist_name # ""
        /\ fresult.value.track_key # ""

\* C19, what the code guarantees: a result is Ok only for a non-empty matches
\* array and a track member, and its fields are exactly what the track member
\* gives, with "Unknown", "Unknown" and "" where it gives no string
C19_OkResultFollowsTrack ==
    fresult.kind = "Ok" =>
        LET response == fresult.value.raw_response
        IN  /\ response.matches.t = "array" /\ response.matches.len > 0
            /\ response.track.t # "absent"
            /\ fresult.value.track_key # "" =>
                  (response.track.t = "object" /\ response.track.key.t = "string")

(***************************************************************************)
(* A continuous session: start_continuous_recognition_with_device          *)
(* (songrec.rs), AudioRecorder (audio/recorder.rs), RecognitionStream      *)
(***************************************************************************)
MaxSessionWindows == 2
MaxQueue == 2

\* the replies the service gives in a session: unreachable, an error status, an
\* unparseable body, no match, a match, a match without a track
SessionReplies ==
    {[transport |-> "error", status |-> 0, body |-> Garbage],
     [transport |-> "ok", status |-> 500, body |-> Garbage],
     [transport |-> "ok", status |-> 200, body |-> Garbage],
     [transport |-> "ok", status |-> 200,
      body |-> Json([matches |-> JArray(0), track |-> JAbsent])],
     [transport |-> "ok", status |-> 200,
      body |-> Json([matches |-> JArray(1),
                     track |-> JTrack(JString("text"), JString("text"), JString("text"),
                                      JAbsent, JAbsent, JAbsent)])],
     [transport |-> "ok", status |-> 200,
      body |-> Json([matches |-> JArray(1), track |-> JAbsent])]}

\* mpsc::Sender::send on the unbounded channel
mpsc_send(chan, item) == Append(chan, item)

\* lines 105-127: what the worker sends for the window's finished submission
SessionOutcome(s) ==
    IF s.result.kind = "Ok"
    THEN parse_recognition_response_static(s.result.value)
    ELSE Err(NetworkError(s.result.error))

WindowItemsOff(w, s) ==
    IF s.result.kind = "Ok" /\ SessionOutcome(s).kind = "Err"
    THEN <<>>
    ELSE <<[win |-> w, result |-> SessionOutcome(s)]>>

\* the items handed to result_tx.send for window w: one in each branch
WindowItems(w, s) == <<[win |-> w, result |-> SessionOutcome(s)]>>

\* lines 141-144: the item sent when start_recording fails
StartErrorItemsOff == <<>>

StartErrorItems == <<[win |-> 0, result |-> Err(AudioError("start_recording"))]>>

AfterSendBreaksOnErr(sent_ok, item) ==
    IF ~sent_ok \/ item.result.kind = "Err" THEN "exited" ELSE "recv"

AfterSendIgnoresFailure(sent_ok, item) == "recv"

\* if result_tx.send(..).is_err() { break; }
AfterSend(sent_ok, item) == IF sent_ok THEN "recv" ELSE "exited"

PcWhileSubmittingOff == "recv"

\* the worker calls recognize_song_from_signature_with_config inline
PcWhileSubmitting == "submit"

RequestsOutstanding(s) == IF s.state = "attempt" THEN 1 ELSE 0

Init ==
    /\ ProcFresh
    /\ ClientIdle
    /\ FileIdle
    /\ capture = "starting"
    /\ sample_chan = <<>>
    /\ wpc = "start"
    /\ win = 0
    /\ submitting = 0
    /\ outstanding = 0
    /\ result_chan = <<>>
    /\ handed = <<>>
    /\ received = <<>>
    /\ handle = "held"
    /\ senders = 1
    /\ stream_end = FALSE
    /\ submitted = <<>>
    /\ CodecIdle
    /\ ConfigIdle
    /\ PeakIdle
    /\ LaterIdle

\* the worker hands items to result_tx.send and goes where the outcome of the
\* last send takes it (to pc_else when there is nothing to send)
WorkerSend(items, pc_else) ==
    /\ handed' = handed \o items
    /\ result_chan' = IF handle = "held" /\ items # <<>>
                      THEN mpsc_send(result_chan, items[1])
                      ELSE result_chan
    /\ wpc' = IF items = <<>> THEN pc_else ELSE AfterSend(handle = "held", items[1])
    /\ senders' = IF wpc' = "exited" THEN 0 ELSE senders

\* recorder.start_recording(device_name, control_rx)
WorkerStart(started) ==
    /\ wpc = "start"
    /\ IF started
       THEN /\ capture' = "ok"
            /\ wpc' = "recv"
            /\ UNCHANGED <<laterVars, handed, result_chan, senders>>
       ELSE /\ capture' = "failed"
            /\ handed' = handed \o StartErrorItems
            /\ result_chan' = IF handle = "held" /\ StartErrorItems # <<>>
                              THEN mpsc_send(result_chan, StartErrorItems[1])
                              ELSE result_chan
            /\ wpc' = "exited"
            /\ senders' = 0
    /\ UNCHANGED <<laterVars, codecVars, configVars, peakVars, procVars, clientVars, fileVars, sample_chan, win, submitting,
                   outstanding, received, handle, stream_end, submitted>>

\* one iteration of for samples in sample_rx, up to the first request of a
\* completed window (or to the send, when the call fails before any request)
WorkerRecv(uri_ok) ==
    /\ wpc = "recv"
    /\ sample_chan # <<>>
    /\ sample_chan' = Tail(sample_chan)
    /\ LET r == process_samples(processor, Head(sample_chan))
       IN  /\ processor' = r.proc
           /\ IF r.ret.kind = "None"
              THEN UNCHANGED <<laterVars, sub, wpc, win, submitting, outstanding, handed,
                               result_chan, senders, submitted>>
              ELSE LET s == SubmitBegin(uri_ok)
                   IN  /\ win' = win + 1
                       /\ submitting' = win + 1
                       /\ sub' = s
                       /\ outstanding' = outstanding + RequestsOutstanding(s)
                       /\ submitted' = IF s.state = "attempt"
                                       THEN Append(submitted, r.ret.value)
                                       ELSE submitted
                       /\ IF s.state = "returned"
                          THEN WorkerSend(WindowItems(win + 1, s), "recv")
                          ELSE /\ wpc' = PcWhileSubmitting
                               /\ UNCHANGED <<laterVars, handed, result_chan, senders>>
    /\ UNCHANGED <<laterVars, codecVars, configVars, peakVars, ret, fed, last_fed, windows, returned, fileVars, capture, received, handle,
                   stream_end>>

\* the outstanding request comes back
WorkerAttemptEnd(reply) ==
    /\ sub.state = "attempt"
    /\ wpc # "exited"
    /\ LET s == AttemptEnd(sub, reply)
       IN  /\ sub' = s
           /\ outstanding' = outstanding - 1 + RequestsOutstanding(s)
           /\ IF s.state = "returned"
              THEN WorkerSend(WindowItems(submitting, s), "recv")
              ELSE UNCHANGED <<laterVars, wpc, handed, result_chan, senders>>
    /\ UNCHANGED <<laterVars, codecVars, configVars, peakVars, procVars, fileVars, capture, sample_chan, win, submitting, received,
                   handle, stream_end, submitted>>

\* the two seconds are over
WorkerBackoffEnd ==
    /\ sub.state = "backoff"
    /\ wpc # "exited"
    /\ LET s == BackoffEnd(sub)
       IN  /\ sub' = s
           /\ outstanding' = outstanding + RequestsOutstanding(s)
           /\ IF s.state = "returned"
              THEN WorkerSend(WindowItems(submitting, s), "recv")
              ELSE UNCHANGED <<laterVars, wpc, handed, result_chan, senders>>
    /\ UNCHANGED <<laterVars, codecVars, configVars, peakVars, procVars, fileVars, capture, sample_chan, win, submitting, received,
                   handle, stream_end, submitted>>

\* the capture callback has filled its buffer and sends it to the worker; it goes
\* on for as long as the session lasts (here: until MaxSessionWindows windows are
\* complete, and after the handle is dropped until the worker has left)
CaptureDeliver ==
    /\ capture = "ok"
    /\ wpc # "exited"
    /\ Len(sample_chan) < MaxQueue
    /\ win < MaxSessionWindows \/ handle = "dropped"
    /\ sample_chan' = mpsc_send(sample_chan, buffer_size)
    /\ UNCHANGED <<laterVars, codecVars, configVars, peakVars, procVars, clientVars, fileVars, capture, wpc, win, submitting,
                   outstanding, result_chan, handed, received, handle, senders,
                   stream_end, submitted>>

\* RecognitionStream::next: an item, or None once every sender is gone
ConsumerNext ==
    /\ handle = "held"
    /\ ~stream_end
    /\ IF result_chan # <<>>
       THEN /\ received' = Append(received, Head(result_chan))
            /\ result_chan' = Tail(result_chan)
            /\ UNCHANGED stream_end
       ELSE /\ senders = 0
            /\ stream_end' = TRUE
            /\ UNCHANGED <<laterVars, received, result_chan>>
    /\ UNCHANGED <<laterVars, codecVars, configVars, peakVars, procVars, clientVars, fileVars, capture, sample_chan, wpc, win,
                   submitting, outstanding, handed, handle, senders, submitted>>

\* the consumer drops its RecognitionStream: the receiver is gone
ConsumerDrop ==
    /\ handle = "held"
    /\ handle' = "dropped"
    /\ result_chan' = <<>>
    /\ UNCHANGED <<laterVars, codecVars, configVars, peakVars, procVars, clientVars, fileVars, capture, sample_chan, wpc, win,
                   submitting, outstanding, handed, received, senders, stream_end, submitted>>

Worker ==
    \/ \E started \in BOOLEAN : WorkerStart(started)
    \/ \E uri_ok \in BOOLEAN : WorkerRecv(uri_ok)
    \/ \E reply \in SessionReplies : WorkerAttemptEnd(reply)
    \/ WorkerBackoffEnd

Next ==
    \/ Worker
    \/ CaptureDeliver
    \/ ConsumerNext
    \/ ConsumerDrop

Spec == Init /\ [][Next]_vars

\* the step of WorkerRecv as the scheduler sees it: the worker is at the top of
\* its loop, a batch waits, and the step takes it.  Of the steps of Next only
\* WorkerRecv shortens sample_chan, and it is enabled exactly when this is.
WorkerTakesBatch ==
    /\ wpc = "recv"
    /\ sample_chan # <<>>
    /\ sample_chan' = Tail(sample_chan)

\* the worker thread runs (it is at one place at a time, so fairness to each of
\* its steps is fairness to the thread), requests and sleeps end, and the
\* capture stage keeps delivering
FairSpec ==
    /\ Spec
    /\ WF_vars(\E started \in BOOLEAN : WorkerStart(started))
    /\ WF_sample_chan(WorkerTakesBatch)
    /\ WF_vars(\E reply \in SessionReplies : WorkerAttemptEnd(reply))
    /\ WF_vars(WorkerBackoffEnd)
    /\ WF_vars(CaptureDeliver)

\* a submission is in progress: a request is outstanding or the worker sleeps
\* between two attempts
SubmissionInProgress == sub.state \in {"attempt", "backoff"}

IsPrefix(s, t) == Len(s) <= Len(t) /\ \A i \in 1..Len(s) : s[i] = t[i]

\* C5: while the consumer holds its handle, what it has received followed by what
\* waits in the channel is exactly one item per window whose submission has
\* finished, in window order 1, 2, 3, ...
C5_OneItemPerWindowInOrder ==
    (capture = "ok" /\ handle = "held") =>
        /\ received \o result_chan = handed
        /\ Len(handed) = win - (IF SubmissionInProgress THEN 1 ELSE 0)
        /\ \A i \in 1..Len(handed) : handed[i].win = i

C5_Witness ==
    /\ capture = "ok"
    /\ handle = "held"
    /\ Len(received) = 2
    /\ received[1].win = 1
    /\ received[2].win = 2
    /\ received[1].result.kind = "Err"
    /\ received[2].result.kind = "Ok"

\* the step hands the consumer an item that reports a failure
SendsFailure ==
    /\ Len(handed') = Len(handed) + 1
    /\ handed'[Len(handed')].result.kind = "Err"
    /\ handed'[Len(handed')].win >= 1
    /\ handle = "held"

\* C6: a window whose submission or parsing failed gives one error item in the
\* stream and leaves the worker at the top of its loop, and the next window is
\* completed, submitted and answered with an item of its own (unless the
\* consumer drops its handle first)
C6_FailureDoesNotEndSession ==
    /\ [][SendsFailure =>
            /\ wpc' = "recv"
            /\ result_chan' = Append(result_chan, handed'[Len(handed')])]_vars
    /\ \A w \in 1..(MaxSessionWindows - 1) :
          (/\ Len(handed) = w
           /\ handle = "held"
           /\ handed[w].win = w
           /\ handed[w].result.kind = "Err")
              ~> \/ Len(handed) > w /\ handed[w + 1].win = w + 1
                 \/ handle = "dropped"

C6_Witness ==
    /\ capture = "ok"
    /\ Len(received) = 2
    /\ received[1].result = Err(NetworkError("All API requests failed"))
    /\ received[2].win = 2

\* C7: once the handle is dropped the worker leaves its loop, at its next send and
\* not before, and a running worker leaves its loop for no other reason
C7_DropStopsWorker ==
    /\ (handle = "dropped") ~> (wpc = "exited")
    /\ [][(handle = "dropped" /\ Len(handed') > Len(handed)) => wpc' = "exited"]_vars
    /\ [][(wpc \in {"recv", "submit"} /\ wpc' = "exited") =>
            (handle = "dropped" /\ Len(handed') > Len(handed))]_vars

C7_Witness ==
    /\ capture = "ok"
    /\ handle = "dropped"
    /\ wpc = "exited"
    /\ Len(handed) = 2
    /\ Len(received) = 1

C9_OneRequestOutstanding ==
    /\ outstanding <= 1
    /\ outstanding = 1 <=> sub.state = "attempt"
    /\ SubmissionInProgress =>
          /\ submitting = win
          /\ Len(handed) = submitting - 1

C9_Witness ==
    /\ outstanding = 1
    /\ submitting = 2
    /\ sub.attempt = 3
    /\ Len(handed) = 1
    /\ Len(sample_chan) = MaxQueue

\* C11: with deduplication enabled, no signature is submitted to the service
\* twice in a session (the session here lasts less than the cache duration of
\* 300 seconds: MaxSessionWindows windows of 12 seconds and their submissions)
C11_NoResubmission ==
    processor.config.deduplicate_requests =>
        \A i, j \in 1..Len(submitted) : i # j => submitted[i] # submitted[j]

(***************************************************************************)
(* The codec on its own: a signature is encoded, the bytes are decoded     *)
(***************************************************************************)
CodecInit ==
    /\ ProcFresh
    /\ ClientIdle
    /\ FileIdle
    /\ SessionIdle
    /\ ConfigIdle
    /\ PeakIdle
    /\ LaterIdle
    /\ csig \in Signatures
    /\ wire = None
    /\ decoded = None

CodecEncode ==
    /\ wire = None
    /\ wire' = Some(encode(csig))
    /\ UNCHANGED <<laterVars, procVars, clientVars, fileVars, sessionVars, configVars, peakVars, csig, decoded>>

CodecDecode ==
    /\ wire # None
    /\ wire.value.kind = "Ok"
    /\ decoded = None
    /\ decoded' = Some(decode(wire.value.value))
    /\ UNCHANGED <<laterVars, procVars, clientVars, fileVars, sessionVars, configVars, peakVars, csig, wire>>

CodecNext == CodecEncode \/ CodecDecode

CodecSpec == CodecInit /\ [][CodecNext]_vars

\* C10: decoding the encoding of a signature gives the signature back: the same
\* sample rate, the same number of samples, and in each band the same peaks in
\* the same order
C10_CodecRoundTrip ==
    /\ wire # None => wire.value.kind = "Ok"
    /\ decoded # None =>
          /\ decoded.value.kind = "Ok"
          /\ decoded.value.value.sample_rate_hz = csig.sample_rate_hz
          /\ decoded.value.value.number_samples = csig.number_samples
          /\ \A b \in DOMAIN csig.frequency_band_to_sound_peaks :
                decoded.value.value.frequency_band_to_sound_peaks[b]
                    = csig.frequency_band_to_sound_peaks[b]
          /\ decoded.value.value = csig

C10_Witness ==
    /\ decoded # None
    /\ decoded.value.kind = "Ok"
    /\ Len(csig.frequency_band_to_sound_peaks[1]) = 2
    /\ csig.frequency_band_to_sound_peaks[1][1] # csig.frequency_band_to_sound_peaks[1][2]
    /\ Len(csig.frequency_band_to_sound_peaks[2]) = 1
    /\ csig.number_samples = 192000

(***************************************************************************)
(* The accumulator on its own: a caller feeding batches                    *)
(***************************************************************************)
ProcInit ==
    /\ ProcFresh
    /\ ClientIdle
    /\ FileIdle
    /\ SessionIdle
    /\ CodecIdle
    /\ ConfigIdle
    /\ PeakIdle
    /\ LaterIdle

Feed(n) ==
    /\ windows < MaxWindows
    /\ LET r == process_samples(processor, n)
       IN  /\ processor' = r.proc
           /\ ret' = r.ret
           /\ last_fed' = fed + n
           /\ fed' = IF r.ret.kind = "Some" THEN 0 ELSE fed + n
           /\ windows' = IF r.ret.kind = "Some" THEN windows + 1 ELSE windows
           /\ returned' = IF r.ret.kind = "Some" THEN Append(returned, r.ret.value)
                                                 ELSE returned
    /\ UNCHANGED <<laterVars, clientVars, fileVars, sessionVars, codecVars, configVars, peakVars>>

ProcNext == \E n \in BatchSizes : Feed(n)

ProcSpec == ProcInit /\ [][ProcNext]_vars

\* C1: fed from fresh, a call returns Some exactly when the samples fed so far
\* reach 192000 (so every call below 192000 returns None, and a split of exactly
\* 192000 samples gets its one signature in the call that completes the 1500th hop)
C1_OneSignaturePer192000 ==
    /\ ret.kind = "Some" <=> (last_fed >= 192000 /\ ret.kind # "NoCall")
    /\ windows = 0 => fed < 192000 /\ ret.kind # "Some"
    /\ ret.kind = "Some" =>
          /\ windows >= 1
          /\ ret.value.number_samples = 192000
          /\ fed = 0
    /\ (last_fed = 192000 /\ windows <= 1) => (ret.kind = "Some" /\ windows = 1)

C1_Witness ==
    ret.kind = "Some" /\ last_fed = 192000 /\ windows = 1

\* C12: a call that returns a signature leaves the processor as a freshly
\* constructed one, so the second window needs a further 192000 samples and its
\* signature counts those 192000 samples only; a signature the caller holds is
\* not changed by a later call
C12_ResetAfterWindow ==
    /\ [](/\ ret.kind = "Some" =>
               /\ processor = AudioProcessor_new
               /\ processor.signature_generator.num_spread_ffts_done = 0
               /\ processor.signature_generator.signature.number_samples = 0
               /\ processor.sample_buffer = 0
               /\ processor.samples_processed = 0
          /\ Len(returned) = windows
          /\ \A i \in 1..Len(returned) :
                returned[i] = [sample_rate_hz |-> 16000, number_samples |-> 192000]
          /\ (windows >= 1 /\ ret.kind = "None") => fed < 192000
          /\ (windows >= 2 /\ ret.kind = "Some") => last_fed >= 192000)
    /\ [][/\ Len(returned') >= Len(returned)
           /\ \A i \in 1..Len(returned) : returned'[i] = returned[i]]_vars

C12_Witness ==
    /\ windows = 2
    /\ ret.kind = "Some"
    /\ last_fed = 192000
    /\ Len(returned) = 2

\* a / b <= c / d for fractions with positive denominators
ProgressLeq(x, y) ==
    IF x[2] = y[2] THEN x[1] <= y[1] ELSE x[1] * y[2] <= y[1] * x[2]

C15_ProgressReachesOne ==
    LET pr == get_progress(processor)
    IN  /\ 0 <= pr[1] /\ pr[1] <= pr[2]
        /\ ret.kind # "Some" => pr[1] < pr[2]
        /\ ret.kind = "Some" => pr[1] = pr[2]

\* C15, the part that holds: between calls the progress is in [0, 1) -- the
\* counter is zeroed in the call that completes the window
C15_ProgressStaysBelowOne ==
    LET pr == get_progress(processor)
    IN  0 <= pr[1] /\ pr[1] < pr[2]

(***************************************************************************)
(* The accumulator built with_config: the same caller, other configurations *)
(***************************************************************************)
\* configurations that set other durations or another sample rate
Configs ==
    {with_max_audio_duration(with_min_audio_duration(Config_default, 2), 15),
     with_sample_rate(Config_default, 44100)}

ConfiguredProcInit ==
    /\ processor \in {AudioProcessor_with_config(c) : c \in Configs}
    /\ ret = [kind |-> "NoCall"]
    /\ fed = 0
    /\ last_fed = 0
    /\ windows = 0
    /\ returned = <<>>
    /\ ClientIdle
    /\ FileIdle
    /\ SessionIdle
    /\ CodecIdle
    /\ ConfigIdle
    /\ PeakIdle
    /\ LaterIdle

ConfiguredProcSpec == ConfiguredProcInit /\ [][ProcNext]_vars

\* the first whole number of hops that holds n samples
HopCeil(n) == ((n + HopSize - 1) \div HopSize) * HopSize

\* C13 as claimed: the window is complete at the total the configuration sets
\* (its duration, minimum or maximum, times its sample rate), at the first hop
\* that reaches it
C13_WindowAtConfiguredTotal ==
    ret.kind = "Some" =>
        ret.value.number_samples \in
            {HopCeil(processor.config.min_audio_duration * processor.config.sample_rate),
             HopCeil(processor.config.max_audio_duration * processor.config.sample_rate)}

\* C13, what the code does: the window is complete at 192000 samples whatever
\* the configuration says
C13_WindowAt192000 ==
    ret.kind = "Some" => ret.value.number_samples = 192000

(***************************************************************************)
(* Band classification of a detected peak: do_peak_recognition             *)
(* (fingerprinting/algorithm.rs)                                           *)
(***************************************************************************)
\* (corrected_peak_frequency_bin as f32 * (16000.0 / 2.0 / 1024.0 / 64.0)) as i32:
\* the factor is 125 / 1024, the product is exact in f32 for every u16 bin, and
\* the cast truncates
frequency_hz_as_i32(bin) == (bin * 125) \div 1024

\* match frequency_hz as i32 { 250..=519, 520..=1449, 1450..=3499, 3500..=5500,
\* _ => continue }: the band the peak is pushed to, None when it is skipped
frequency_band(bin) ==
    LET hz == frequency_hz_as_i32(bin)
    IN  IF 250 <= hz /\ hz <= 519 THEN Some(FrequencyBands[1])
        ELSE IF 520 <= hz /\ hz <= 1449 THEN Some(FrequencyBands[2])
        ELSE IF 1450 <= hz /\ hz <= 3499 THEN Some(FrequencyBands[3])
        ELSE IF 3500 <= hz /\ hz <= 5500 THEN Some(FrequencyBands[4])
        ELSE None

PeakInit ==
    /\ ProcFresh
    /\ ClientIdle
    /\ FileIdle
    /\ SessionIdle
    /\ CodecIdle
    /\ ConfigIdle
    /\ LaterIdle
    /\ peak_bin \in 0..U16Max
    /\ peak_band = [kind |-> "NoCall"]

\* a peak with this corrected bin was detected: it is classified, and pushed
\* to its band or skipped
PeakClassify ==
    /\ peak_band.kind = "NoCall"
    /\ peak_band' = frequency_band(peak_bin)
    /\ UNCHANGED <<laterVars, procVars, clientVars, fileVars, sessionVars, codecVars, configVars,
                   peak_bin>>

PeakNext == PeakClassify

PeakSpec == PeakInit /\ [][PeakNext]_vars

\* the bounds of the four bands in Hz, lower bound included, upper excluded
BandRange ==
    [b \in 1..Len(FrequencyBands) |->
        <<<<250, 520>>, <<520, 1450>>, <<1450, 3500>>, <<3500, 5500>>>>[b]]

\* lo <= bin * 125 / 1024 < hi, the frequency of the bin being exact
FrequencyWithin(bin, lo, hi) == lo * 1024 <= bin * 125 /\ bin * 125 < hi * 1024

\* C16 as claimed: a peak is stored exactly if its frequency is in [250, 5500)
\* Hz, and then in the band whose range contains the frequency
C16_StoredOnlyWithinBands ==
    peak_band.kind # "NoCall" =>
        /\ peak_band.kind = "Some" <=> FrequencyWithin(peak_bin, 250, 5500)
        /\ \A b \in 1..Len(FrequencyBands) :
              peak_band = Some(FrequencyBands[b]) =>
                  FrequencyWithin(peak_bin, BandRange[b][1], BandRange[b][2])

\* C16, what the code does: the frequency is truncated to whole Hz before it is
\* matched, and the last band takes 5500 too: a peak is stored exactly if its
\* frequency is in [250, 5501), and frequencies in [5500, 5501) go to 3500-5500
C16_StoredUpTo5501 ==
    peak_band.kind # "NoCall" =>
        /\ peak_band.kind = "Some" <=> FrequencyWithin(peak_bin, 250, 5501)
        /\ \A b \in 1..(Len(FrequencyBands) - 1) :
              peak_band = Some(FrequencyBands[b]) <=>
                  FrequencyWithin(peak_bin, BandRange[b][1], BandRange[b][2])
        /\ peak_band = Some(FrequencyBands[4]) <=> FrequencyWithin(peak_bin, 3500, 5501)

(***************************************************************************)
(* The configuration builder: Config::with_sensitivity (config.rs)         *)
(***************************************************************************)
MaxSensitivityInput == 60

\* arguments of with_sensitivity: NaN and -0.6 .. 1.6 in hundredths
SensitivityInputs ==
    {NaN} \cup {F32(c) : c \in (0 - MaxSensitivityInput)..(100 + MaxSensitivityInput)}

ConfigInit ==
    /\ ProcFresh
    /\ ClientIdle
    /\ FileIdle
    /\ SessionIdle
    /\ CodecIdle
    /\ PeakIdle
    /\ LaterIdle
    /\ config = Config_default
    /\ sens_arg = None

\* config = config.with_sensitivity(x)
WithSensitivity(x) ==
    /\ config' = with_sensitivity(config, x)
    /\ sens_arg' = Some(x)
    /\ UNCHANGED <<laterVars, procVars, clientVars, fileVars, sessionVars, codecVars, peakVars>>

ConfigNext == \E x \in SensitivityInputs : WithSensitivity(x)

ConfigSpec == ConfigInit /\ [][ConfigNext]_vars

\* C20: with_sensitivity(x) stores 0.0 for x below 0, 1.0 for x above 1 and x
\* itself for x inside the range, changes no other option, and applying it
\* again with the stored value changes nothing
C20_SensitivityClamped ==
    sens_arg # None =>
        LET x == sens_arg.value
        IN  /\ f32_lt(x, F32(0)) => config.sensitivity = F32(0)
            /\ f32_gt(x, F32(100)) => config.sensitivity = F32(100)
            /\ (~x.nan /\ 0 <= x.c /\ x.c <= 100) => config.sensitivity = x
            /\ ~x.nan => (0 <= config.sensitivity.c /\ config.sensitivity.c <= 100)
            /\ config = [Config_default EXCEPT !.sensitivity = config.sensitivity]
            /\ with_sensitivity(config, config.sensitivity) = config

C20_Witness ==
    /\ sens_arg = Some(F32(150))
    /\ config.sensitivity = F32(100)

\* C30: a call returns one signature at most; the call that completes a window
\* leaves nothing in the leftover buffer, also when its batch went on after the
\* completing hop, so those samples are not part of the next window; a call
\* that completes no window keeps every sample it was given, hopped or left
\* over.  Between calls the leftover buffer holds fewer than 128 samples and
\* samples_processed is a multiple of 128 below 192000
C30_LeftoverDiscardedAtWindowEnd ==
    /\ [](/\ processor.sample_buffer < HopSize
          /\ processor.samples_processed % HopSize = 0
          /\ processor.samples_processed < 192000
          /\ ret.kind = "Some" =>
                /\ processor.sample_buffer = 0
                /\ processor.samples_processed = 0
          /\ ret.kind = "None" =>
                processor.samples_processed + processor.sample_buffer = fed)
    /\ [][/\ Len(returned') <= Len(returned) + 1
           /\ ret'.kind = "Some" =>
                (processor.samples_processed + processor.sample_buffer + last_fed' - fed
                    >= 192000)]_vars

\* a window was completed by a batch that went on after the completing hop
C30_Witness ==
    /\ ret.kind = "Some"
    /\ last_fed > 192000 + HopSize
    /\ processor.sample_buffer = 0
    /\ fed = 0

(***************************************************************************)
(* SongRec::recognize_from_samples (songrec.rs)                            *)
(***************************************************************************)
MaxSamples == 300

\* lengths of the sample buffer the caller passes
SampleLens == {0, 1, HopSize - 1, HopSize, HopSize + 1, 2 * HopSize, MaxSamples}

\* do_fft_internal: ring_buffer_of_samples[index..index + 128].copy_from_slice(s16_mono_16khz_buffer)
\* panics unless the buffer has the length of the destination
CopyFromSliceFits(len) == len = HopSize

\* pc: "chunks" (in the for loop over samples.chunks(128)), "submitting",
\* "done", "panicked"; rest: the samples the loop has not reached yet;
\* hops: the length of every chunk passed to do_fft, in order
SamplesInit ==
    /\ ProcFresh
    /\ FileIdle
    /\ SessionIdle
    /\ CodecIdle
    /\ ConfigIdle
    /\ PeakIdle
    /\ NetIdle
    /\ BuilderIdle
    /\ SpreadIdle
    /\ EngineIdle
    /\ sub = SubIdle
    /\ \E len \in SampleLens :
            rfs = [pc |-> "chunks", len |-> len, rest |-> len, hops |-> << >>,
                   generator |-> SignatureGenerator_new, result |-> None]

\* one iteration of for chunk in samples.chunks(128) { generator.do_fft(chunk, sample_rate) }
SamplesChunk ==
    /\ rfs.pc = "chunks"
    /\ rfs.rest > 0
    /\ LET chunk == Min(HopSize, rfs.rest)
       IN  rfs' = IF CopyFromSliceFits(chunk)
                  THEN [rfs EXCEPT !.rest = @ - chunk,
                                   !.hops = Append(@, chunk),
                                   !.generator = do_fft(@, chunk, TargetSampleRate)]
                  ELSE [rfs EXCEPT !.hops = Append(@, chunk),
                                   !.pc = "panicked"]
    /\ UNCHANGED <<procVars, clientVars, fileVars, sessionVars, codecVars, configVars, peakVars,
                   netVars, builderVars, spreadVars, engineVars>>

\* the loop is over: get_signature, then recognize_song_from_signature
SamplesSubmit(uri_ok) ==
    /\ rfs.pc = "chunks"
    /\ rfs.rest = 0
    /\ LET s == SubmitBegin(uri_ok)
       IN  /\ sub' = s
           /\ rfs' = IF s.state = "returned"
                      THEN [rfs EXCEPT !.pc = "done", !.result = FileOutcome(s)]
                      ELSE [rfs EXCEPT !.pc = "submitting"]
    /\ UNCHANGED <<procVars, fileVars, sessionVars, codecVars, configVars, peakVars,
                   netVars, builderVars, spreadVars, engineVars>>

SamplesAttemptEnd(reply) ==
    /\ rfs.pc = "submitting"
    /\ sub.state = "attempt"
    /\ LET s == AttemptEnd(sub, reply)
       IN  /\ sub' = s
           /\ rfs' = IF s.state = "returned"
                      THEN [rfs EXCEPT !.pc = "done", !.result = FileOutcome(s)]
                      ELSE rfs
    /\ UNCHANGED <<procVars, fileVars, sessionVars, codecVars, configVars, peakVars,
                   netVars, builderVars, spreadVars, engineVars>>

SamplesBackoffEnd ==
    /\ rfs.pc = "submitting"
    /\ sub.state = "backoff"
    /\ LET s == BackoffEnd(sub)
       IN  /\ sub' = s
           /\ rfs' = IF s.state = "returned"
                      THEN [rfs EXCEPT !.pc = "done", !.result = FileOutcome(s)]
                      ELSE rfs
    /\ UNCHANGED <<procVars, fileVars, sessionVars, codecVars, configVars, peakVars,
                   netVars, builderVars, spreadVars, engineVars>>

SamplesNext ==
    \/ SamplesChunk
    \/ \E uri_ok \in BOOLEAN : SamplesSubmit(uri_ok)
    \/ \E reply \in Replies : SamplesAttemptEnd(reply)
    \/ SamplesBackoffEnd

SamplesSpec == SamplesInit /\ [][SamplesNext]_vars

\* C29: whatever the length of the sample buffer, every chunk
\* recognize_from_samples passes to the engine has exactly 128 samples, and the
\* call does not end in a panic
C29_OnlyFullHops ==
    /\ \A i \in DOMAIN rfs.hops : rfs.hops[i] = HopSize
    /\ rfs.pc # "panicked"

\* what does hold: the chunks are full and the call returns when the length
\* is a multiple of 128, the empty buffer included
C29_FullHopsForMultiplesOf128 ==
    rfs.len % HopSize = 0 =>
        /\ \A i \in DOMAIN rfs.hops : rfs.hops[i] = HopSize
        /\ rfs.pc # "panicked"
        /\ rfs.pc = "done" => rfs.result.kind \in {"Ok", "Err"}

(***************************************************************************)
(* The engine with its spectra (fingerprinting/algorithm.rs)               *)
(*                                                                         *)
(* The FFT is not computed: the spectrum a hop has is the input.  A        *)
(* magnitude is carried as its rank in Magnitudes, a table of f32 values   *)
(* in ascending order, so comparing ranks is comparing magnitudes.  The    *)
(* spectra are carried on the bins the tests of one bin position read:     *)
(* the 21 bins from bin - 10 to bin + 10.                                  *)
(***************************************************************************)
\* fft_outputs and spread_fft_outputs hold vec![0.0; 1025]: bins 0..=1024
LastBin == 1024

CandidateBinsOff == 0..LastBin

\* for bin_position in 10..=1014
CandidateBins == 10..1014

NeighborOffsets == {0 - 10, 0 - 7, 0 - 4, 0 - 3, 1, 2, 5, 8}
OtherOffsets == {0 - 53, 0 - 45, 165, 172, 179, 186, 193, 200, 214, 221, 228, 235, 242, 249}
FormerFftNumbers == {1, 3, 6}

\* ((index as i32 + offset) & 255) as usize
Wrap(i) == i % SpectraSlots

\* the magnitudes of the model, as f32 values in ascending order:
\* rank 0 is 0.0 (a buffer as allocated), 1 is the FFT's floor 1e-10,
\* 2 is 0.001, 3 is 1/64, 4 to 8 are 0x1.000124p+2, 0x1.000130p+2,
\* 0x1.000132p+2, 0x1.000134p+2, 0x1.00013cp+2 (4.00007...), 9 is 64.0 and
\* 10 is 1024.0
FftFloor == 1
AbsoluteFloor == 3
TopMagnitude == 10

\* x.ln().max(1.0 / 64.0) * 1477.3 + 6144.0 in f32, in units of 2^-11
\* (6167.083 for every x up to e^(1/64); 8191.9985, 8191.9995, 8192.0;
\* 12287.918; 16383.863)
LogMagnitude ==
    [x \in 0..TopMagnitude |->
        IF x <= 3 THEN 12630186
        ELSE IF x = 4 THEN 16777213
        ELSE IF x \in {5, 6} THEN 16777215
        ELSE IF x \in {7, 8} THEN 16777216
        ELSE IF x = 9 THEN 25165656
        ELSE 33554152]

Max(a, b) == IF a > b THEN a ELSE b

MaxOf(S) == CHOOSE m \in S : \A x \in S : x <= m

\* the distance between neighbouring f32 values around a (a >= 0, in units of
\* 2^-11): 24 bits of mantissa
F32Step(a) ==
    IF a < 16777216 THEN 1 ELSE IF a < 33554432 THEN 2 ELSE IF a < 67108864 THEN 4 ELSE 8

\* the f32 nearest to n >= 0, ties to the even mantissa
F32RoundUp(n) ==
    LET g == F32Step(n)
        q == n \div g
        r == n % g
    IN  IF 2 * r < g THEN q * g
        ELSE IF 2 * r > g THEN (q + 1) * g
        ELSE IF q % 2 = 0 THEN q * g
        ELSE (q + 1) * g

\* the result of an f32 addition or subtraction whose exact value is n
f32_round(n) == IF n >= 0 THEN F32RoundUp(n) ELSE 0 - F32RoundUp(0 - n)

I32Max == 2147483647

\* (num / den) as i32, num and den being f32 values: the quotient truncated
\* towards zero, 0 for NaN (0.0 / 0.0) and the nearest i32 for an infinity;
\* the rounding of the quotient to f32 is left out: it moves no quotient of
\* the magnitudes above across an integer
quotient_as_i32(num, den) ==
    IF den = 0
    THEN IF num = 0 THEN [sat |-> "no", v |-> 0]
         ELSE IF num > 0 THEN [sat |-> "max", v |-> I32Max]
         ELSE [sat |-> "min", v |-> 0 - I32Max - 1]
    ELSE LET n == IF num >= 0 THEN num ELSE 0 - num
             d == IF den >= 0 THEN den ELSE 0 - den
         IN  [sat |-> "no",
              v |-> IF (num >= 0) = (den >= 0) THEN n \div d ELSE 0 - (n \div d)]

\* the bins carried for a bin position
Window(bin) == (bin - 10)..(bin + 10)

\* what do_fft_internal stores for a hop without signal
QuietSpectrum(bin) == [position \in Window(bin) |-> FftFloor]

\* a spectrum with the three magnitudes top around the bin position
LoudSpectrum(bin, top) ==
    [position \in Window(bin) |->
        IF position = bin - 1 THEN top[1]
        ELSE IF position = bin THEN top[2]
        ELSE IF position = bin + 1 THEN top[3]
        ELSE FftFloor]

\* the spectrum of hop number hop (0-based) of the input a
Heard(a, hop) ==
    IF hop \in a.loud THEN LoudSpectrum(a.bin, a.top) ELSE QuietSpectrum(a.bin)

\* SignatureGenerator::new; hop_of_slot: the hop that wrote each slot of
\* fft_outputs last, -1 for none; last: the locals of the last
\* do_peak_recognition call if the bin position passed every test
Engine_new(bin) ==
    [ring_buffer_of_samples_index |-> 0,
     fft_outputs_index            |-> 0,
     spread_fft_outputs_index     |-> 0,
     num_spread_ffts_done         |-> 0,
     fft_outputs        |-> [slot \in 0..(SpectraSlots - 1) |-> [position \in Window(bin) |-> 0]],
     spread_fft_outputs |-> [slot \in 0..(SpectraSlots - 1) |-> [position \in Window(bin) |-> 0]],
     frequency_band_to_sound_peaks |-> [b \in 1..4 |-> << >>],
     hop_of_slot |-> [slot \in 0..(SpectraSlots - 1) |-> 0 - 1],
     last |-> None,
     panicked |-> FALSE]

\* do_fft_internal, the FFT of the hop being given: the ring cursor, the
\* spectrum stored at fft_outputs_index, the cursor advanced
do_fft_internal(e, heard) ==
    [e EXCEPT !.ring_buffer_of_samples_index = (@ + HopSize) % RingSize,
              !.fft_outputs[e.fft_outputs_index] = heard,
              !.hop_of_slot[e.fft_outputs_index] = e.num_spread_ffts_done,
              !.fft_outputs_index = (@ + 1) % SpectraSlots]

RECURSIVE SpreadFromOff(_, _, _)
SpreadFromOff(results, position, last) ==
    IF position > last
    THEN results
    ELSE LET r == SpreadFromOff(results, position + 1, last)
         IN  [r EXCEPT ![position] = Max(Max(@, r[position + 1]), r[position + 2])]

\* for position in position..=last { results[position] =
\*     results[position].max(results[position + 1]).max(results[position + 2]) }
RECURSIVE SpreadFrom(_, _, _)
SpreadFrom(results, position, last) ==
    IF position > last
    THEN results
    ELSE SpreadFrom([results EXCEPT ![position] =
                        Max(Max(@, results[position + 1]), results[position + 2])],
                    position + 1, last)

\* do_peak_spreading on the bins lo..hi: the newest spectrum spread over
\* frequency (the last two bins carried stay as they are, as bins 1023 and 1024
\* do), then raised into the spread spectra 1, 3 and 6 hops back
do_peak_spreading(e, lo, hi) ==
    LET real_fft_results == e.fft_outputs[Wrap(e.fft_outputs_index - 1)]
        spread_fft_results == SpreadFrom(real_fft_results, lo, hi - 2)
        former == {Wrap(e.spread_fft_outputs_index - n) : n \in FormerFftNumbers}
    IN  [e EXCEPT
            !.spread_fft_outputs =
                [slot \in DOMAIN @ |->
                    IF slot = e.spread_fft_outputs_index
                    THEN spread_fft_results
                    ELSE IF slot \in former
                    THEN [position \in lo..hi |->
                            Max(@[slot][position], spread_fft_results[position])]
                    ELSE @[slot]],
            !.spread_fft_outputs_index = (@ + 1) % SpectraSlots]

IsCandidateOff(fft_minus_46, fft_minus_49, bin_position) ==
    fft_minus_46[bin_position] >= fft_minus_49[bin_position - 1]

\* fft_minus_46[bin_position] >= 1.0 / 64.0 &&
\* fft_minus_46[bin_position] >= fft_minus_49[bin_position - 1]
IsCandidate(fft_minus_46, fft_minus_49, bin_position) ==
    /\ fft_minus_46[bin_position] >= AbsoluteFloor
    /\ fft_minus_46[bin_position] >= fft_minus_49[bin_position - 1]

fft_pass_numberOff(e) == e.num_spread_ffts_done - (PeakLag - 1)

\* let fft_pass_number = self.num_spread_ffts_done - 46
fft_pass_number(e) == e.num_spread_ffts_done - PeakLag

\* the body of do_peak_recognition's loop for one bin_position;
\* overflow_checks: the build panics on integer overflow (a debug build) or
\* wraps (a release build)
do_peak_recognition(e, bin_position, overflow_checks) ==
    LET fft_minus_46 == e.fft_outputs[Wrap(e.fft_outputs_index - 46)]
        fft_minus_49 == e.spread_fft_outputs[Wrap(e.spread_fft_outputs_index - 49)]
        max_neighbor_in_fft_minus_49 ==
            MaxOf({0} \cup {fft_minus_49[bin_position + o] : o \in NeighborOffsets})
        max_neighbor_in_other_adjacent_ffts ==
            MaxOf({max_neighbor_in_fft_minus_49} \cup
                  {e.spread_fft_outputs[Wrap(e.spread_fft_outputs_index + o)][bin_position - 1] :
                        o \in OtherOffsets})
        peak_magnitude == LogMagnitude[fft_minus_46[bin_position]]
        peak_magnitude_before == LogMagnitude[fft_minus_46[bin_position - 1]]
        peak_magnitude_after == LogMagnitude[fft_minus_46[bin_position + 1]]
        peak_variation_1 ==
            f32_round(f32_round(peak_magnitude * 2 - peak_magnitude_before)
                      - peak_magnitude_after)
        peak_variation_2 ==
            quotient_as_i32(f32_round(peak_magnitude_after - peak_magnitude_before) * 32,
                            peak_variation_1)
        overflow == peak_variation_2.sat = "max" /\ bin_position > 0
        \* ((bin_position as i32 * 64) + (peak_variation_2 as i32)) as u16
        corrected_peak_frequency_bin ==
            IF peak_variation_2.sat = "max" THEN (bin_position * 64 - 1) % (U16Max + 1)
            ELSE IF peak_variation_2.sat = "min" THEN (bin_position * 64) % (U16Max + 1)
            ELSE (bin_position * 64 + peak_variation_2.v) % (U16Max + 1)
        band == frequency_band(corrected_peak_frequency_bin)
        found == [fft_pass_number |-> fft_pass_number(e),
                  peak_variation_1 |-> peak_variation_1,
                  peak_variation_2 |-> peak_variation_2,
                  corrected_peak_frequency_bin |-> corrected_peak_frequency_bin,
                  frequency_band |-> band]
    IN  IF ~(/\ IsCandidate(fft_minus_46, fft_minus_49, bin_position)
             /\ fft_minus_46[bin_position] > max_neighbor_in_fft_minus_49
             /\ fft_minus_46[bin_position] > max_neighbor_in_other_adjacent_ffts)
        THEN [e EXCEPT !.last = None]
        ELSE IF (overflow /\ overflow_checks) \/ peak_variation_1 < 0
        THEN [e EXCEPT !.last = Some(found), !.panicked = TRUE]
        ELSE IF band = None
        THEN [e EXCEPT !.last = Some(found)]
        ELSE LET b == CHOOSE k \in 1..4 : FrequencyBands[k] = band.value
             IN  [e EXCEPT
                    !.last = Some(found),
                    !.frequency_band_to_sound_peaks[b] =
                        Append(@, [fft_pass_number |-> fft_pass_number(e),
                                   peak_magnitude |-> peak_magnitude \div 2048,
                                   corrected_peak_frequency_bin |->
                                        corrected_peak_frequency_bin])]

\* do_fft for the hop whose spectrum is heard
engine_do_fft(e, heard, bin, overflow_checks) ==
    LET after_spreading == do_peak_spreading(do_fft_internal(e, heard), bin - 10, bin + 10)
        counted == [after_spreading EXCEPT !.num_spread_ffts_done = @ + 1]
    IN  IF counted.num_spread_ffts_done >= PeakLag
        THEN do_peak_recognition(counted, bin, overflow_checks)
        ELSE counted

MaxEngineHops == 300

\* the magnitudes a loud hop has at bin - 1, bin, bin + 1
Tops ==
    {<<1, 3, 1>>, <<1, 2, 1>>, <<3, 10, 3>>, <<1, 10, 9>>, <<9, 10, 1>>, <<10, 9, 1>>,
     <<4, 6, 5>>, <<5, 8, 7>>, <<7, 8, 5>>}

\* the hops that are loud
LoudHops == {{0}, {2, 5}, {2, 10}, {214, 222}}

\* the inputs: a bin position in each band with every loud spectrum, and the
\* first and the last bin position of the loop (both outside the bands)
Audios ==
    {[bin |-> 100, loud |-> l, top |-> t] : l \in LoudHops, t \in Tops}
    \cup {[bin |-> b, loud |-> {2, 10}, top |-> <<3, 10, 3>>] :
            b \in {MaxOf({0 - x : x \in CandidateBins}) * (0 - 1), 40, 200, 500,
                   MaxOf(CandidateBins)}}

EngineInit ==
    /\ ProcFresh
    /\ ClientIdle
    /\ FileIdle
    /\ SessionIdle
    /\ CodecIdle
    /\ ConfigIdle
    /\ PeakIdle
    /\ NetIdle
    /\ BuilderIdle
    /\ SamplesIdle
    /\ SpreadIdle
    /\ audio \in Audios
    /\ engine = Engine_new(audio.bin)

\* do_fft is called with the next 128 samples of the input
EngineHop(overflow_checks) ==
    /\ engine.num_spread_ffts_done < MaxEngineHops
    /\ ~engine.panicked
    /\ engine' = engine_do_fft(engine, Heard(audio, engine.num_spread_ffts_done),
                               audio.bin, overflow_checks)
    /\ audio' = audio
    /\ UNCHANGED <<procVars, clientVars, fileVars, sessionVars, codecVars, configVars,
                   peakVars, netVars, builderVars, samplesVars, spreadVars>>

EngineNext == \E overflow_checks \in BOOLEAN : EngineHop(overflow_checks)

EngineSpec == EngineInit /\ [][EngineNext]_vars

\* the peaks stored so far, whatever their band
StoredPeaks ==
    UNION {{engine.frequency_band_to_sound_peaks[b][i] :
                i \in DOMAIN engine.frequency_band_to_sound_peaks[b]} : b \in 1..4}

\* the spectrum peak recognition has just looked for peaks in, and the spread
\* spectrum it has compared it with
fft_minus_46 == engine.fft_outputs[Wrap(engine.fft_outputs_index - 46)]
fft_minus_49 == engine.spread_fft_outputs[Wrap(engine.spread_fft_outputs_index - 49)]

\* C24: a stored peak carries the hop counter minus 46 as of its detection,
\* which is the 0-based number of the hop that wrote the spectrum it was found
\* in (here: a loud hop of the input); nothing is found or stored before the
\* 46th hop; the peaks of a band are in non-decreasing fft_pass_number order
C24_PassNumberIsHopOfSpectrum ==
    /\ \A b \in 1..4 :
            LET peaks == engine.frequency_band_to_sound_peaks[b]
            IN  /\ \A i \in DOMAIN peaks : peaks[i].fft_pass_number \in audio.loud
                /\ \A i, j \in DOMAIN peaks :
                        i <= j => peaks[i].fft_pass_number <= peaks[j].fft_pass_number
    /\ engine.num_spread_ffts_done < PeakLag =>
            (StoredPeaks = {} /\ engine.last = None)
    /\ engine.num_spread_ffts_done >= PeakLag =>
            engine.hop_of_slot[Wrap(engine.fft_outputs_index - 46)]
                = engine.num_spread_ffts_done - PeakLag
    /\ engine.last # None =>
            /\ engine.last.value.fft_pass_number = engine.num_spread_ffts_done - PeakLag
            /\ engine.last.value.fft_pass_number
                    = engine.hop_of_slot[Wrap(engine.fft_outputs_index - 46)]
            /\ fft_minus_46 = Heard(audio, engine.last.value.fft_pass_number)

\* two peaks of one band, the second found after the cursors have wrapped
C24_Witness ==
    \E b \in 1..4 :
        LET peaks == engine.frequency_band_to_sound_peaks[b]
        IN  /\ Len(peaks) = 2
            /\ peaks[1].fft_pass_number = 214
            /\ peaks[2].fft_pass_number = 222
            /\ engine.fft_outputs_index < 46

\* the bin position has passed every test in the hop just ingested
Accepted == engine.last # None

\* C25: a bin is accepted as a peak only if its magnitude in the 46-hops-old
\* spectrum is strictly above 1/64 and strictly above the 49-hops-old spread
\* spectrum at the bin before it
C25_AcceptedOnlyStrictlyAbove ==
    Accepted =>
        /\ fft_minus_46[audio.bin] > AbsoluteFloor
        /\ fft_minus_46[audio.bin] > fft_minus_49[audio.bin - 1]

\* C25, amended: a bin is accepted only if its magnitude is at least 1/64 and
\* at least the spread value at the bin before it, which it then equals; a
\* loud hop whose magnitude at the bin is below 1/64 gives no peak
C25_AcceptedOnlyAtLeast ==
    /\ Accepted =>
            /\ fft_minus_46[audio.bin] >= AbsoluteFloor
            /\ fft_minus_46[audio.bin] >= fft_minus_49[audio.bin - 1]
            /\ fft_minus_46[audio.bin] = fft_minus_49[audio.bin - 1]
    /\ audio.top[2] < AbsoluteFloor => (~Accepted /\ StoredPeaks = {})

\* a bin of magnitude 1/64 exactly, equal to the spread value before it, is
\* stored
C25_Witness ==
    /\ Accepted
    /\ engine.last.value.frequency_band # None
    /\ fft_minus_46[audio.bin] = AbsoluteFloor
    /\ fft_minus_46[audio.bin] = fft_minus_49[audio.bin - 1]
    /\ StoredPeaks # {}

\* C26: with hops of 128 samples, the ring cursor is a multiple of 128 below
\* 2048 (so the 128 samples written fit), the two spectrum cursors are equal
\* and below 256, and every slot and every bin that ingest, spreading and peak
\* recognition index is inside its buffer
C26_CursorsAndIndicesInRange ==
    /\ engine.ring_buffer_of_samples_index % HopSize = 0
    /\ engine.ring_buffer_of_samples_index \in 0..(RingSize - 1)
    /\ engine.ring_buffer_of_samples_index + HopSize <= RingSize
    /\ engine.fft_outputs_index = engine.spread_fft_outputs_index
    /\ engine.fft_outputs_index \in 0..(SpectraSlots - 1)
    /\ \A o \in {1, 46} :
            Wrap(engine.fft_outputs_index - o) \in DOMAIN engine.fft_outputs
    /\ \A o \in {0 - n : n \in FormerFftNumbers} \cup {0 - 49} \cup OtherOffsets :
            Wrap(engine.spread_fft_outputs_index + o) \in DOMAIN engine.spread_fft_outputs
    /\ \A o \in NeighborOffsets \cup {0 - 1, 0, 1} : audio.bin + o \in 0..LastBin
    /\ \A position \in (audio.bin - 10)..(audio.bin + 8) : position + 2 \in 0..LastBin
    /\ \A position \in {0, LastBin - 2} : position + 2 \in 0..LastBin

\* the last bin position of the loop has been through peak recognition after
\* the three cursors have wrapped
C26_Witness ==
    /\ audio.bin = 1014
    /\ engine.num_spread_ffts_done > SpectraSlots
    /\ engine.fft_outputs_index < PeakLag
    /\ engine.ring_buffer_of_samples_index = 0
    /\ StoredPeaks = {}
    /\ engine.last = None

C28_AssertHolds ==
    Accepted =>
        /\ engine.last.value.peak_variation_1 >= 0
        /\ fft_minus_46[audio.bin] > fft_minus_46[audio.bin - 1]
        /\ fft_minus_46[audio.bin] > fft_minus_46[audio.bin + 1]

(***************************************************************************)
(* The frequency-domain spreading of do_peak_spreading on a whole spectrum *)
(***************************************************************************)
\* the last bin of the spectrum (1024 in the engine) and the highest magnitude
LastSpreadBin == 4
MaxSpreadMagnitude == 3

SpreadInit ==
    /\ ProcFresh
    /\ ClientIdle
    /\ FileIdle
    /\ SessionIdle
    /\ CodecIdle
    /\ ConfigIdle
    /\ PeakIdle
    /\ NetIdle
    /\ BuilderIdle
    /\ SamplesIdle
    /\ EngineIdle
    /\ spectrum \in [0..LastSpreadBin -> 1..MaxSpreadMagnitude]
    /\ spread = << >>

\* spread_fft_results.copy_from_slice(real_fft_results), then the loop over
\* position in 0..=1022, the last bin but two
SpreadFrequency ==
    /\ spread = << >>
    /\ spread' = SpreadFrom(spectrum, 0, LastSpreadBin - 2)
    /\ spectrum' = spectrum
    /\ UNCHANGED <<procVars, clientVars, fileVars, sessionVars, codecVars, configVars,
                   peakVars, netVars, builderVars, samplesVars, engineVars>>

SpreadNext == SpreadFrequency

SpreadSpec == SpreadInit /\ [][SpreadNext]_vars

\* C27: after the frequency-domain spreading of a spectrum s, the spread
\* spectrum holds max(s[i], s[i + 1], s[i + 2]) at every bin i up to the last
\* but two, and s itself at the last two bins
C27_SpreadIsMaxOfThree ==
    spread # << >> =>
        /\ \A i \in 0..(LastSpreadBin - 2) :
                spread[i] = MaxOf({spectrum[i], spectrum[i + 1], spectrum[i + 2]})
        /\ spread[LastSpreadBin - 1] = spectrum[LastSpreadBin - 1]
        /\ spread[LastSpreadBin] = spectrum[LastSpreadBin]

\* a spectrum whose only high bin is the last: the pass raises the last bin
\* but two, and the bins before it stay low
C27_Witness ==
    /\ spread # << >>
    /\ spectrum[LastSpreadBin] = MaxSpreadMagnitude
    /\ \A i \in 0..(LastSpreadBin - 1) : spectrum[i] = 1
    /\ spread[LastSpreadBin - 2] = MaxSpreadMagnitude
    /\ spread[LastSpreadBin - 3] = 1

(***************************************************************************)
(* The recognition client called with a configured network_timeout         *)
(***************************************************************************)
\* the network_timeout values the caller configures, in seconds
NetworkTimeouts == {5, 20, 30, 60}

ClientInit ==
    /\ ProcFresh
    /\ FileIdle
    /\ SessionIdle
    /\ CodecIdle
    /\ PeakIdle
    /\ BuilderIdle
    /\ SamplesIdle
    /\ SpreadIdle
    /\ EngineIdle
    /\ config \in {with_network_timeout(Config_default, t) : t \in NetworkTimeouts}
    /\ sens_arg = None
    /\ sub = SubIdle
    /\ timeouts = << >>

\* the timeouts of the requests sent so far, after sub went from s0 to s
SentTimeouts(s0, s) ==
    IF s.state = "attempt" /\ s.attempt # s0.attempt
    THEN Append(timeouts, request_timeout(config, s.attempt))
    ELSE timeouts

\* recognize_song_from_signature_with_config(&signature, &config) is called
ClientSubmit(uri_ok) ==
    /\ sub.state = "idle"
    /\ sub' = SubmitBegin(uri_ok)
    /\ timeouts' = SentTimeouts(sub, sub')
    /\ UNCHANGED <<procVars, fileVars, sessionVars, codecVars, configVars, peakVars,
                   builderVars, samplesVars, spreadVars, engineVars>>

ClientAttemptEnd(reply) ==
    /\ sub.state = "attempt"
    /\ sub' = AttemptEnd(sub, reply)
    /\ timeouts' = SentTimeouts(sub, sub')
    /\ UNCHANGED <<procVars, fileVars, sessionVars, codecVars, configVars, peakVars,
                   builderVars, samplesVars, spreadVars, engineVars>>

ClientBackoffEnd ==
    /\ sub.state = "backoff"
    /\ sub' = BackoffEnd(sub)
    /\ timeouts' = SentTimeouts(sub, sub')
    /\ UNCHANGED <<procVars, fileVars, sessionVars, codecVars, configVars, peakVars,
                   builderVars, samplesVars, spreadVars, engineVars>>

ClientNext ==
    \/ \E uri_ok \in BOOLEAN : ClientSubmit(uri_ok)
    \/ \E reply \in Replies : ClientAttemptEnd(reply)
    \/ ClientBackoffEnd

ClientSpec == ClientInit /\ [][ClientNext]_vars

\* C21: every request of a submission is sent with the timeout its
\* configuration holds in network_timeout
C21_TimeoutIsNetworkTimeout ==
    \A i \in DOMAIN timeouts : timeouts[i] = config.network_timeout

(***************************************************************************)
(* The Config builders                                                     *)
(***************************************************************************)
\* the arguments the builders are called with: none is the default of its field
BuilderArgs ==
    [with_sensitivity                  |-> {F32(0 - 10), F32(150)},
     with_network_timeout              |-> {5},
     with_min_audio_duration           |-> {2},
     with_max_audio_duration           |-> {15},
     with_sample_rate                  |-> {44100},
     with_buffer_size                  |-> {1024},
     with_continuous_recognition       |-> {TRUE},
     with_recognition_interval         |-> {1},
     with_quiet_mode                   |-> {FALSE},
     with_deduplication                |-> {FALSE},
     with_deduplication_cache_duration |-> {60}]

Builders == DOMAIN BuilderArgs

\* built: the last call and, for every builder, the argument of its last call
NotBuilt == [last |-> None, args |-> [m \in Builders |-> None]]

BuilderInit ==
    /\ ProcFresh
    /\ ClientIdle
    /\ FileIdle
    /\ SessionIdle
    /\ CodecIdle
    /\ PeakIdle
    /\ NetIdle
    /\ SamplesIdle
    /\ SpreadIdle
    /\ EngineIdle
    /\ config = Config_default
    /\ sens_arg = None
    /\ built = NotBuilt
    /\ prev_config = Config_default

\* config = config.method(arg), which gave c
Built(method, arg, c) ==
    /\ prev_config' = config
    /\ config' = c
    /\ built' = [last |-> Some([method |-> method, arg |-> arg]),
                 args |-> [built.args EXCEPT ![method] = Some(arg)]]
    /\ UNCHANGED <<procVars, clientVars, fileVars, sessionVars, codecVars, sens_arg, peakVars,
                   netVars, samplesVars, spreadVars, engineVars>>

BuildSensitivity ==
    \E x \in BuilderArgs.with_sensitivity :
        Built("with_sensitivity", x, with_sensitivity(config, x))
BuildNetworkTimeout ==
    \E x \in BuilderArgs.with_network_timeout :
        Built("with_network_timeout", x, with_network_timeout(config, x))
BuildMinAudioDuration ==
    \E x \in BuilderArgs.with_min_audio_duration :
        Built("with_min_audio_duration", x, with_min_audio_duration(config, x))
BuildMaxAudioDuration ==
    \E x \in BuilderArgs.with_max_audio_duration :
        Built("with_max_audio_duration", x, with_max_audio_duration(config, x))
BuildSampleRate ==
    \E x \in BuilderArgs.with_sample_rate :
        Built("with_sample_rate", x, with_sample_rate(config, x))
BuildBufferSize ==
    \E x \in BuilderArgs.with_buffer_size :
        Built("with_buffer_size", x, with_buffer_size(config, x))
BuildContinuousRecognition ==
    \E x \in BuilderArgs.with_continuous_recognition :
        Built("with_continuous_recognition", x, with_continuous_recognition(config, x))
BuildRecognitionInterval ==
    \E x \in BuilderArgs.with_recognition_interval :
        Built("with_recognition_interval", x, with_recognition_interval(config, x))
BuildQuietMode ==
    \E x \in BuilderArgs.with_quiet_mode :
        Built("with_quiet_mode", x, with_quiet_mode(config, x))
BuildDeduplication ==
    \E x \in BuilderArgs.with_deduplication :
        Built("with_deduplication", x, with_deduplication(config, x))
BuildDeduplicationCacheDuration ==
    \E x \in BuilderArgs.with_deduplication_cache_duration :
        Built("with_deduplication_cache_duration", x,
              with_deduplication_cache_duration(config, x))

BuilderNext ==
    \/ BuildSensitivity
    \/ BuildNetworkTimeout
    \/ BuildMinAudioDuration
    \/ BuildMaxAudioDuration
    \/ BuildSampleRate
    \/ BuildBufferSize
    \/ BuildContinuousRecognition
    \/ BuildRecognitionInterval
    \/ BuildQuietMode
    \/ BuildDeduplication
    \/ BuildDeduplicationCacheDuration

BuilderSpec == BuilderInit /\ [][BuilderNext]_vars

\* the field a builder is named after
FieldOf ==
    [with_sensitivity                  |-> "sensitivity",
     with_network_timeout              |-> "network_timeout",
     with_min_audio_duration           |-> "min_audio_duration",
     with_max_audio_duration           |-> "max_audio_duration",
     with_sample_rate                  |-> "sample_rate",
     with_buffer_size                  |-> "buffer_size",
     with_continuous_recognition       |-> "continuous_recognition",
     with_recognition_interval         |-> "recognition_interval",
     with_quiet_mode                   |-> "quiet_mode",
     with_deduplication                |-> "deduplicate_requests",
     with_deduplication_cache_duration |-> "deduplication_cache_duration"]

\* the value a builder is to store for an argument: the argument, brought
\* into 0.0 .. 1.0 for the sensitivity
Stored(method, arg) ==
    IF method # "with_sensitivity" THEN arg
    ELSE IF arg.c < 0 THEN F32(0)
    ELSE IF arg.c > 100 THEN F32(100)
    ELSE arg

\* C22: a builder call sets the field it is named after to its argument
\* (clamped for the sensitivity) and leaves every other field as it was; the
\* configuration a chain of calls yields is therefore, field by field, the
\* value last given for the field, or the default: the order of the calls to
\* different builders plays no part
C22_BuildersSetOwnFieldOnly ==
    /\ built.last # None =>
            LET call == built.last.value
            IN  /\ config[FieldOf[call.method]] = Stored(call.method, call.arg)
                /\ \A f \in DOMAIN config \ {FieldOf[call.method]} :
                        config[f] = prev_config[f]
    /\ \A m \in Builders :
            config[FieldOf[m]] =
                IF built.args[m] = None
                THEN Config_default[FieldOf[m]]
                ELSE Stored(m, built.args[m].value)

\* two builders were called in the order opposite to the one they are
\* declared in, each with a value other than the default
C22_Witness ==
    /\ built.last = Some([method |-> "with_network_timeout", arg |-> 5])
    /\ built.args["with_buffer_size"] = Some(1024)
    /\ config.buffer_size = 1024
    /\ config.network_timeout = 5
    /\ prev_config.network_timeout = 20
====
